---- MODULE Spec2Model ----
(***************************************************************************)
(* Verification model of the cloud-connect network probing engine:        *)
(*   - portscan        (network/net-grab.go, second program of the file)  *)
(*   - net-grab sweep  (host sweep scanner with port specification)       *)
(*   - traceroute      (network/traceroute.go)                            *)
(*   - connectivity    (network/connectivity.go)                          *)
(* Each executable is modelled by its own specification over its own      *)
(* group of variables; the other groups stay at their idle values.        *)
(***************************************************************************)
EXTENDS Integers, Sequences, FiniteSets, TLC

VARIABLES
    \* ---- port scan (portscan's scanPortsWithRateLimit / Scanner.scanPorts)
    prog,          \* "portscan" or "sweep": which scanner runs
    ports,         \* the expanded port list handed to the scan
    reqConc,       \* portscan: os.Args[4] as a number, 0 when absent or unusable
    maxConcurrent, \* capacity of the semaphore channel
    tpc,           \* position of each port task
    tres,          \* the PortResult each port task has computed
    semaphore,     \* number of slots of the semaphore channel in use
    wg,            \* WaitGroup counter
    resultChan,    \* buffered channel of PortResult (portscan)
    chanClosed,    \* resultChan has been closed
    openPorts,     \* accumulated open ports
    closedPorts,   \* accumulated closed ports (portscan)
    scannedPorts,  \* atomic progress counter (sweep)
    mpc,           \* position of the calling task
    nextIdx,       \* loop index of the launch loop
    summary,       \* value returned by the scan
    \* ---- port specification parsing (main of portscan / net-grab)
    pprog,         \* "portscan" or "netgrab"
    pspec,         \* the port specification argument, a string
    pcidrOk,       \* net-grab: the CIDR argument parses
    ppc,           \* "start" or "done"
    presult,       \* what the parser returned
    pexit,         \* exit code of the executable
    pscan,         \* a scan was started with the parsed ports
    \* ---- host sweep (Scanner.scanNetwork / Scanner.scanHost)
    cidr,          \* the CIDR argument
    hosts,         \* the expanded host list
    spc,           \* position of scanNetwork
    sidx,          \* index of the next host to launch
    sem,           \* slots of the sweep's semaphore channel in use
    swg,           \* WaitGroup counter of the sweep
    wpc,           \* position of each host worker
    info,          \* the HostInfo each worker is building
    mu,            \* holder of s.mu (0 when free)
    wtmp,          \* the slice value a worker read for its append
    results,       \* s.results
    hostsScanned,  \* atomic counter of completed hosts
    serr,          \* what scanNetwork returned
    \* ---- traceroute (parseTracerouteOutput)
    tos,           \* operating system the tool runs on
    toutput,       \* output of the traceroute command, a sequence of lines
    trpc,          \* "start" or "done"
    thops,         \* the HopResult sequence returned
    \* ---- connectivity (main, checkPing, checkTcpPort, checkUdpPort)
    cargs,         \* os.Args: their number and the mode, port and timeout words
    cpc,           \* position of main: "start", "running", "exited"
    ctimeout,      \* the timeout in seconds main settled on
    probes,        \* the probes of this invocation and their positions
    cresults,      \* results gathered so far
    now,           \* the clock, in seconds
    cout,          \* what was written to standard output
    cexit,         \* exit code
    \* ---- net-grab's standard output (main, scanNetwork, display functions)
    oprog,         \* "netgrab" (current main) or "netgrab_v1" (earlier main)
    oflags,        \* the -v, -live and -json flags after flag.Parse
    oinput,        \* which of the arguments, port specification and CIDR are usable
    ototal,        \* s.totalHosts
    oscanned,      \* s.hostsScanned
    oprogress,     \* position of the displayProgress goroutine
    opc,           \* position of main: "start", "scan", "exited"
    stdout,        \* kinds of the lines written to standard output, in order
    oexit,         \* exit code
    \* ---- one worker of the sweep against the clock (Scanner.scanHost)
    hhang,         \* the external operations that never complete by themselves
    hpc,           \* position of the worker: "ping", "dns", "dial", "append", "done"
    hnow,          \* the clock, in seconds
    hstart,        \* when the operation in flight was started
    hinfo,         \* the HostInfo scanHost is building
    hslot,         \* the worker holds its slot of the semaphore channel
    \* ---- a traceroute to several targets (traceMultipleTargets)
    mtimeout,      \* the timeout argument, in seconds
    mhang,         \* the targets whose traceroute never ends by itself
    mtask,         \* per target: position, context it runs under, how it ended
    mnow,          \* the clock, in seconds
    mtop,          \* the context of the whole invocation
    mtpc,          \* position of traceMultipleTargets
    mresult,       \* the counts of the MultiTracerouteResult returned
    \* ---- a traceroute to one target (runTraceroute)
    ros,           \* operating system the tool runs on
    rnumeric,      \* the numeric flag (traceroute -n)
    routput,       \* output of the traceroute command, a sequence of lines
    rtarget,       \* targetIP, by its last byte
    rmaxHops,      \* maxHops
    rcmdErr,       \* cmd.CombinedOutput returned an error
    rpc,           \* position: "start", "returned", "printed"
    rresult,       \* the TracerouteResult returned
    \* ---- the calling layer (executeNetworkTool of network-tools.js)
    jstdout,       \* standard output of the tool, a sequence of pieces
    jerror,        \* execFile reports an error (exit code not 0, tool not started)
    jpc,           \* position: "start", "running", "settled"
    jcalls,        \* the calls of resolve and reject made so far
    \* ---- the callers of connectivity (network-tools.js, CLI)
    kcaller,       \* the caller: testConnectivity or the CLI command
    kopts,         \* the options of the call
    kargv,         \* the arguments handed to the executable
    kpc,           \* position of the call
    kseen,         \* the timeout and ports main settled on
    \* ---- ping statistics (detailedPing, parsePingOutput, checkPing)
    gprog,         \* the caller of ping: the sweep or connectivity
    grun,          \* the run of the ping subprocess: its output and exit status
    gpc,           \* position: "start", "pinged", "done"
    gstats,        \* the PingStats or ConnectivityResult built
    greach,        \* IsReachable of the host / Success of the probe
    \* ---- the CIDR expansion loop of scanNetwork
    ecidr,         \* the parsed CIDR block
    eip,           \* the loop variable ip
    ehosts,        \* hosts, the list built so far
    epc,           \* position: "start", "test", "body", "inc", "done"
    \* ---- the sweep with its progress reporter (scanNetwork, displayProgress)
    llive,         \* s.liveDisplay
    ltotal,        \* s.totalHosts
    lwpc,          \* position of each worker
    lidx,          \* index of the next host to start
    lsem,          \* slots of sem in use
    lwg,           \* counter of the WaitGroup
    lmu,           \* holder of s.mu, 0 when free
    lresults,      \* s.results, by the index of the host
    lscanned,      \* s.hostsScanned
    lrpc,          \* position of the reporter goroutine
    lread,         \* the value of the counter the reporter loaded
    lmpc,          \* position of main / scanNetwork
    lout,          \* standard output, the kinds of the lines written
    \* ---- portscan against the clock (contexts of scanPortsWithRateLimit)
    dtimeout,      \* the per-port timeout, in seconds
    dcap,          \* maxConcurrent, the capacity of the semaphore
    dbeh,          \* what the target does with each port
    dtask,         \* the port tasks: position, start and deadline of the dial, result
    dsem,          \* slots of the semaphore in use
    dnow,          \* the clock, in seconds
    dctx,          \* the deadline of ctx
    dpc            \* position of scanPortsWithRateLimit

scanVars == <<prog, ports, reqConc, maxConcurrent, tpc, tres, semaphore, wg,
              resultChan, chanClosed, openPorts, closedPorts, scannedPorts, mpc, nextIdx,
              summary>>

parseVars == <<pprog, pspec, pcidrOk, ppc, presult, pexit, pscan>>

sweepVars == <<cidr, hosts, spc, sidx, sem, swg, wpc, info, mu, wtmp, results,
               hostsScanned, serr>>

traceVars == <<tos, toutput, trpc, thops>>

connVars == <<cargs, cpc, ctimeout, probes, cresults, now, cout, cexit>>

outVars == <<oprog, oflags, oinput, ototal, oscanned, oprogress, opc, stdout,
             oexit>>

hostVars == <<hhang, hpc, hnow, hstart, hinfo, hslot>>

multiVars == <<mtimeout, mhang, mtask, mnow, mtop, mtpc, mresult>>

runVars == <<ros, rnumeric, routput, rtarget, rmaxHops,
    rcmdErr, rpc, rresult>>

jsVars == <<jstdout, jerror, jpc, jcalls>>

callVars == <<kcaller, kopts, kargv, kpc, kseen>>

pingVars == <<gprog, grun, gpc, gstats, greach>>

expandVars == <<ecidr, eip, ehosts, epc>>

liveVars == <<llive, ltotal, lwpc, lidx, lsem,
    lwg, lmu, lresults, lscanned, lrpc,
    lread, lmpc, lout>>

dialVars == <<dtimeout, dcap, dbeh, dtask, dsem, dnow, dctx, dpc>>

vars == <<scanVars, parseVars, sweepVars, traceVars, connVars, outVars,
    hostVars, multiVars, runVars, jsVars, callVars, pingVars, expandVars, liveVars, dialVars>>

\* Variables of the other executables, untouched by a port scan
nonScanVars == <<parseVars, sweepVars, traceVars, connVars, outVars, hostVars,
    multiVars, runVars, jsVars, callVars, pingVars, expandVars, liveVars, dialVars>>
\* Variables untouched by the parsing of a port specification
nonParseVars == <<scanVars, sweepVars, traceVars, connVars, outVars, hostVars,
    multiVars, runVars, jsVars, callVars, pingVars, expandVars, liveVars, dialVars>>
\* Variables untouched by a host sweep
nonSweepVars == <<scanVars, parseVars, traceVars, connVars, outVars, hostVars,
    multiVars, runVars, jsVars, callVars, pingVars, expandVars, liveVars, dialVars>>
\* Variables untouched by a traceroute
nonTraceVars == <<scanVars, parseVars, sweepVars, connVars, outVars, hostVars,
    multiVars, runVars, jsVars, callVars, pingVars, expandVars, liveVars, dialVars>>
\* Variables untouched by a connectivity check
nonConnVars == <<scanVars, parseVars, sweepVars, traceVars, outVars, hostVars,
    multiVars, runVars, jsVars, callVars, pingVars, expandVars, liveVars, dialVars>>
\* Variables untouched by the writing of net-grab's standard output
nonOutVars == <<scanVars, parseVars, sweepVars, traceVars, connVars, hostVars,
    multiVars, runVars, jsVars, callVars, pingVars, expandVars, liveVars, dialVars>>
\* Variables untouched by a worker of the sweep run against the clock
nonHostVars == <<scanVars, parseVars, sweepVars, traceVars, connVars, outVars,
    multiVars, runVars, jsVars, callVars, pingVars, expandVars, liveVars, dialVars>>
\* Variables untouched by a traceroute to several targets (traceMultipleTargets)
nonMultiVars == <<scanVars, parseVars, sweepVars, traceVars, connVars, outVars,
    hostVars, runVars, jsVars, callVars, pingVars, expandVars, liveVars, dialVars>>
\* Variables untouched by a traceroute to one target (runTraceroute)
nonRunVars == <<scanVars, parseVars, sweepVars, traceVars, connVars, outVars,
    hostVars, multiVars, jsVars, callVars, pingVars, expandVars, liveVars, dialVars>>
\* Variables untouched by the calling layer (executeNetworkTool of network-tools.js)
nonJsVars == <<scanVars, parseVars, sweepVars, traceVars, connVars, outVars,
    hostVars, multiVars, runVars, callVars, pingVars, expandVars, liveVars, dialVars>>
\* Variables untouched by the callers of connectivity (network-tools.js, CLI)
nonCallVars == <<scanVars, parseVars, sweepVars, traceVars, connVars, outVars,
    hostVars, multiVars, runVars, jsVars, pingVars, expandVars, liveVars, dialVars>>
\* Variables untouched by ping statistics (detailedPing, parsePingOutput, checkPing)
nonPingVars == <<scanVars, parseVars, sweepVars, traceVars, connVars, outVars,
    hostVars, multiVars, runVars, jsVars, callVars, expandVars, liveVars, dialVars>>
\* Variables untouched by the CIDR expansion loop of scanNetwork
nonExpandVars == <<scanVars, parseVars, sweepVars, traceVars, connVars,
    outVars, hostVars, multiVars, runVars, jsVars, callVars, pingVars, liveVars, dialVars>>
\* Variables untouched by the sweep with its progress reporter (scanNetwork, displayProgress)
nonLiveVars == <<scanVars, parseVars, sweepVars, traceVars, connVars, outVars,
    hostVars, multiVars, runVars, jsVars, callVars, pingVars, expandVars, dialVars>>
\* Variables untouched by portscan against the clock (contexts of scanPortsWithRateLimit)
nonDialVars == <<scanVars, parseVars, sweepVars, traceVars, connVars, outVars,
    hostVars, multiVars, runVars, jsVars, callVars, pingVars, expandVars,
    liveVars>>

----------------------------------------------------------------------------
\* Bounds of the model
MaxPortsLen == 3        \* longest port list scanned by portscan
MaxSweepPorts == 4      \* longest port list scanned by the sweep's scanPorts
MaxConc == 2            \* largest maxConcurrent given to portscan

\* Scaled stand-ins for the ceilings of Scanner.scanPorts, chosen so that the
\* semaphore binds on the longest lists, that the longest lists are large
\* scans and that a list below the threshold spans two chunks; their order
\* follows the source
\* (threshold 10000 >= chunk 1000 >= ceiling 500 > large ceiling 200).
ChunkSize == 2              \* stands for chunkSize := 1000
SweepConcurrency == 2       \* stands for maxConcurrent := 500
SweepLargeConcurrency == 1  \* stands for maxConcurrent = 200
LargeScanThreshold == 3     \* stands for len(portsToScan) > 10000

\* Scaled stand-ins for the concurrency settings of portscan's main, chosen so
\* that the longest lists are large scans and the largest request is clamped
PortscanDefaultConcurrency == 1  \* stands for maxConcurrent := 100
PortscanLargeCeiling == 1        \* stands for maxConcurrent = 500
PortscanLargeThreshold == 2      \* stands for len(ports) > 10000

\* Scaled stand-ins for the ceilings of Scanner.scanNetwork
SweepWorkers == 2           \* stands for make(chan struct{}, 20)
MaxHostsCap == 3            \* stands for maxHosts: 256

MaxHopLines == 3            \* hop lines of a traceroute transcript

MaxClock == 6               \* seconds the clock of a connectivity check runs

\* Program constants
DefaultTimeout == 5
MaxPort == 65535
PingCount == 4

PortUniverse == {80, 443}
NoResult == [none |-> TRUE]

----------------------------------------------------------------------------
\* Helpers

RECURSIVE SeqsUpTo(_, _)
SeqsUpTo(S, n) ==
    IF n = 0 THEN {<<>>}
    ELSE LET shorter == SeqsUpTo(S, n - 1)
         IN shorter \cup {Append(s, x) : s \in {t \in shorter : Len(t) = n - 1}, x \in S}

RECURSIVE Insert(_, _)
Insert(x, s) ==
    IF s = <<>> THEN <<x>>
    ELSE IF x <= Head(s) THEN <<x>> \o s
    ELSE <<Head(s)>> \o Insert(x, Tail(s))

RECURSIVE SortInts(_)
SortInts(s) == IF s = <<>> THEN <<>> ELSE Insert(Head(s), SortInts(Tail(s)))

Range(s) == {s[i] : i \in 1..Len(s)}

----------------------------------------------------------------------------
\* Port scanning: portscan's scanPortsWithRateLimit and Scanner.scanPorts

PortLists == SeqsUpTo(PortUniverse, MaxPortsLen) \ {<<>>}

\* PortScanOptions the sweep can be configured with (parsePortSpec's results)
PortOptionsSet ==
    {[Ports |-> l, StartPort |-> 0, EndPort |-> 0, ScanAll |-> FALSE] : l \in PortLists}
    \cup {[Ports |-> <<>>, StartPort |-> a, EndPort |-> b, ScanAll |-> FALSE] :
            a \in 79..80, b \in 80..(78 + MaxSweepPorts)}

\* Scanner.scanPorts: the list of ports to scan built from the port options
portsToScan(opts) ==
    IF Len(opts.Ports) > 0 THEN opts.Ports
    ELSE [i \in 1..(IF opts.EndPort >= opts.StartPort
                    THEN opts.EndPort - opts.StartPort + 1 ELSE 0)
            |-> opts.StartPort + i - 1]

\* Capacity of the semaphore channel of the running scan
semaphoreCapLenPorts == Len(ports)
semaphoreCap ==
    IF prog = "portscan" THEN maxConcurrent
    ELSE IF Len(ports) > LargeScanThreshold THEN SweepLargeConcurrency
    ELSE SweepConcurrency

NumPorts == Len(ports)
Tasks == 1..NumPorts

\* main of portscan with the clamp lost: the requested value is always kept
clampConcurrency_Never(n, mc) == mc

\* main of portscan: if len(ports) > 10000 && maxConcurrent > 500 {...}
clampConcurrency(n, mc) ==
    IF n > PortscanLargeThreshold /\ mc > PortscanLargeCeiling
    THEN PortscanLargeCeiling
    ELSE mc

\* main of portscan: maxConcurrent := 100, replaced by os.Args[4] when that is
\* a number above 0
requestedConcurrency(req) ==
    IF req > 0 THEN req ELSE PortscanDefaultConcurrency

ScanInit ==
    /\ prog \in {"portscan", "sweep"}
    /\ IF prog = "portscan"
       THEN /\ ports \in PortLists
            /\ reqConc \in 0..MaxConc
            /\ maxConcurrent = PortscanDefaultConcurrency
            /\ mpc = "main"
       ELSE /\ ports \in {portsToScan(o) : o \in PortOptionsSet}
            /\ Len(ports) \in 1..MaxSweepPorts
            /\ reqConc = 0
            /\ maxConcurrent = 0
            /\ mpc = "loop"
    /\ tpc = [i \in 1..Len(ports) |-> "idle"]
    /\ tres = [i \in 1..Len(ports) |-> NoResult]
    /\ semaphore = 0
    /\ wg = 0
    /\ resultChan = <<>>
    /\ chanClosed = FALSE
    /\ openPorts = <<>>
    /\ closedPorts = <<>>
    /\ scannedPorts = 0
    /\ nextIdx = 1
    /\ summary = NoResult

\* ---- portscan: main -----------------------------------------------------------

\* main, from the reading of os.Args[4] to the call of scanPortsWithRateLimit
PS_Main ==
    /\ prog = "portscan" /\ mpc = "main"
    /\ maxConcurrent' = clampConcurrency(Len(ports), requestedConcurrency(reqConc))
    /\ mpc' = "loop"
    /\ UNCHANGED <<prog, ports, reqConc, tpc, tres, semaphore, wg, resultChan,
                   chanClosed, openPorts, closedPorts, scannedPorts, nextIdx,
                   summary>>
    /\ UNCHANGED nonScanVars

\* ---- portscan: scanPortsWithRateLimit --------------------------------------

\* for _, port := range ports { wg.Add(1); go func(p int) {...}(port) }
PS_Spawn ==
    /\ prog = "portscan" /\ mpc = "loop" /\ nextIdx <= NumPorts
    /\ wg' = wg + 1
    /\ tpc' = [tpc EXCEPT ![nextIdx] = "acquire"]
    /\ nextIdx' = nextIdx + 1
    /\ mpc' = IF nextIdx = NumPorts THEN "collect" ELSE "loop"
    /\ UNCHANGED <<prog, ports, reqConc, maxConcurrent, tres, semaphore, resultChan,
                   chanClosed, openPorts, closedPorts, scannedPorts, summary>>
    /\ UNCHANGED nonScanVars

\* semaphore <- struct{}{}
PS_Acquire(i) ==
    /\ prog = "portscan" /\ tpc[i] = "acquire"
    /\ semaphore < semaphoreCap
    /\ semaphore' = semaphore + 1
    /\ tpc' = [tpc EXCEPT ![i] = "dial"]
    /\ UNCHANGED <<prog, ports, reqConc, maxConcurrent, tres, wg, resultChan, chanClosed,
                   openPorts, closedPorts, scannedPorts, mpc, nextIdx, summary>>
    /\ UNCHANGED nonScanVars

\* result := scanPortWithContext(portCtx, ip, p, timeout)
PS_Dial(i) ==
    /\ prog = "portscan" /\ tpc[i] = "dial"
    /\ \E open \in BOOLEAN :
          tres' = [tres EXCEPT ![i] = [Port |-> ports[i], Open |-> open]]
    /\ tpc' = [tpc EXCEPT ![i] = "send"]
    /\ UNCHANGED <<prog, ports, reqConc, maxConcurrent, semaphore, wg, resultChan,
                   chanClosed, openPorts, closedPorts, scannedPorts, mpc,
                   nextIdx, summary>>
    /\ UNCHANGED nonScanVars

\* resultChan <- result   (channel buffered with len(ports) slots)
PS_Send(i) ==
    /\ prog = "portscan" /\ tpc[i] = "send"
    /\ ~chanClosed
    /\ Len(resultChan) < NumPorts
    /\ resultChan' = Append(resultChan, tres[i])
    /\ tpc' = [tpc EXCEPT ![i] = "release"]
    /\ UNCHANGED <<prog, ports, reqConc, maxConcurrent, tres, semaphore, wg, chanClosed,
                   openPorts, closedPorts, scannedPorts, mpc, nextIdx, summary>>
    /\ UNCHANGED nonScanVars

\* PS_Release without <-semaphore: the slot is never given back
PS_Release_KeepSlot(i) ==
    /\ prog = "portscan" /\ tpc[i] = "release"
    /\ wg' = wg - 1
    /\ tpc' = [tpc EXCEPT ![i] = "done"]
    /\ UNCHANGED <<prog, ports, reqConc, maxConcurrent, tres, semaphore, resultChan,
                   chanClosed, openPorts, closedPorts, scannedPorts, mpc, nextIdx,
                   summary>>
    /\ UNCHANGED nonScanVars

\* deferred: portCancel(); <-semaphore; wg.Done()
PS_Release(i) ==
    /\ prog = "portscan" /\ tpc[i] = "release"
    /\ semaphore' = semaphore - 1
    /\ wg' = wg - 1
    /\ tpc' = [tpc EXCEPT ![i] = "done"]
    /\ UNCHANGED <<prog, ports, reqConc, maxConcurrent, tres, resultChan, chanClosed,
                   openPorts, closedPorts, scannedPorts, mpc, nextIdx, summary>>
    /\ UNCHANGED nonScanVars

\* go func() { wg.Wait(); close(resultChan) }()
PS_Close ==
    /\ prog = "portscan" /\ mpc = "collect" /\ ~chanClosed
    /\ wg = 0
    /\ chanClosed' = TRUE
    /\ UNCHANGED <<prog, ports, reqConc, maxConcurrent, tpc, tres, semaphore, wg,
                   resultChan, openPorts, closedPorts, scannedPorts, mpc,
                   nextIdx, summary>>
    /\ UNCHANGED nonScanVars

\* PS_Collect with the else branch lost: closed results are not kept
PS_Collect_DropClosed ==
    /\ prog = "portscan" /\ mpc = "collect"
    /\ resultChan # <<>>
    /\ LET result == Head(resultChan)
       IN  IF result.Open
           THEN /\ openPorts' = Append(openPorts, result)
                /\ UNCHANGED closedPorts
           ELSE UNCHANGED <<openPorts, closedPorts>>
    /\ resultChan' = Tail(resultChan)
    /\ UNCHANGED <<prog, ports, reqConc, maxConcurrent, tpc, tres, semaphore, wg,
                   chanClosed, scannedPorts, mpc, nextIdx, summary>>
    /\ UNCHANGED nonScanVars

\* for result := range resultChan { if result.Open {...} else {...} }
PS_Collect ==
    /\ prog = "portscan" /\ mpc = "collect"
    /\ resultChan # <<>>
    /\ LET result == Head(resultChan)
       IN  IF result.Open
           THEN /\ openPorts' = Append(openPorts, result)
                /\ UNCHANGED closedPorts
           ELSE /\ closedPorts' = Append(closedPorts, result)
                /\ UNCHANGED openPorts
    /\ resultChan' = Tail(resultChan)
    /\ UNCHANGED <<prog, ports, reqConc, maxConcurrent, tpc, tres, semaphore, wg,
                   chanClosed, scannedPorts, mpc, nextIdx, summary>>
    /\ UNCHANGED nonScanVars

\* the range loop ends on the closed, drained channel; return ScanResult{...}
PS_Return ==
    /\ prog = "portscan" /\ mpc = "collect"
    /\ resultChan = <<>> /\ chanClosed
    /\ summary' = [OpenPorts |-> openPorts, ClosedPorts |-> closedPorts,
                   PortsScanned |-> Len(ports)]
    /\ mpc' = "returned"
    /\ UNCHANGED <<prog, ports, reqConc, maxConcurrent, tpc, tres, semaphore, wg,
                   resultChan, chanClosed, openPorts, closedPorts, scannedPorts,
                   nextIdx>>
    /\ UNCHANGED nonScanVars

\* ---- sweep: Scanner.scanPorts -----------------------------------------------

\* end (exclusive, 1-based) of the chunk that holds index i
ChunkEnd(i) ==
    LET e == ((i - 1) \div ChunkSize) * ChunkSize + ChunkSize
    IN  IF e > NumPorts THEN NumPorts ELSE e

\* SP_Spawn with the wait at the end of a chunk lost: only the end of the
\* list is waited for
SP_Spawn_NoChunkWait ==
    /\ prog = "sweep" /\ mpc = "loop" /\ nextIdx <= NumPorts
    /\ semaphore < semaphoreCap
    /\ wg' = wg + 1
    /\ semaphore' = semaphore + 1
    /\ tpc' = [tpc EXCEPT ![nextIdx] = "dial"]
    /\ nextIdx' = nextIdx + 1
    /\ mpc' = IF nextIdx = NumPorts THEN "wait" ELSE "loop"
    /\ UNCHANGED <<prog, ports, reqConc, maxConcurrent, tres, resultChan, chanClosed,
                   openPorts, closedPorts, scannedPorts, summary>>
    /\ UNCHANGED nonScanVars

\* for _, port := range chunk { wg.Add(1); sem <- struct{}{}; go func(p int) }
SP_Spawn ==
    /\ prog = "sweep" /\ mpc = "loop" /\ nextIdx <= NumPorts
    /\ semaphore < semaphoreCap
    /\ wg' = wg + 1
    /\ semaphore' = semaphore + 1
    /\ tpc' = [tpc EXCEPT ![nextIdx] = "dial"]
    /\ nextIdx' = nextIdx + 1
    /\ mpc' = IF nextIdx = ChunkEnd(nextIdx) THEN "wait" ELSE "loop"
    /\ UNCHANGED <<prog, ports, reqConc, maxConcurrent, tres, resultChan, chanClosed,
                   openPorts, closedPorts, scannedPorts, summary>>
    /\ UNCHANGED nonScanVars

\* conn, err := net.DialTimeout("tcp", address, s.timeout)
SP_Dial(i) ==
    /\ prog = "sweep" /\ tpc[i] = "dial"
    /\ \E open \in BOOLEAN :
          /\ tres' = [tres EXCEPT ![i] = [Port |-> ports[i], Open |-> open]]
          /\ tpc' = [tpc EXCEPT ![i] = IF open THEN "append" ELSE "count"]
    /\ UNCHANGED <<prog, ports, reqConc, maxConcurrent, semaphore, wg, resultChan,
                   chanClosed, openPorts, closedPorts, scannedPorts, mpc,
                   nextIdx, summary>>
    /\ UNCHANGED nonScanVars

\* mu.Lock(); openPorts = append(openPorts, p); mu.Unlock()
SP_Append(i) ==
    /\ prog = "sweep" /\ tpc[i] = "append"
    /\ openPorts' = Append(openPorts, ports[i])
    /\ tpc' = [tpc EXCEPT ![i] = "count"]
    /\ UNCHANGED <<prog, ports, reqConc, maxConcurrent, tres, semaphore, wg, resultChan,
                   chanClosed, closedPorts, scannedPorts, mpc, nextIdx, summary>>
    /\ UNCHANGED nonScanVars

\* atomic.AddInt32(&scannedPorts, 1)
SP_Count(i) ==
    /\ prog = "sweep" /\ tpc[i] = "count"
    /\ scannedPorts' = scannedPorts + 1
    /\ tpc' = [tpc EXCEPT ![i] = "release"]
    /\ UNCHANGED <<prog, ports, reqConc, maxConcurrent, tres, semaphore, wg, resultChan,
                   chanClosed, openPorts, closedPorts, mpc, nextIdx, summary>>
    /\ UNCHANGED nonScanVars

\* deferred: <-sem; wg.Done()
SP_Release(i) ==
    /\ prog = "sweep" /\ tpc[i] = "release"
    /\ semaphore' = semaphore - 1
    /\ wg' = wg - 1
    /\ tpc' = [tpc EXCEPT ![i] = "done"]
    /\ UNCHANGED <<prog, ports, reqConc, maxConcurrent, tres, resultChan, chanClosed,
                   openPorts, closedPorts, scannedPorts, mpc, nextIdx, summary>>
    /\ UNCHANGED nonScanVars

\* wg.Wait() at the end of a chunk; after the last chunk: sort.Ints; return
SP_Wait ==
    /\ prog = "sweep" /\ mpc = "wait"
    /\ wg = 0
    /\ IF nextIdx > NumPorts
       THEN /\ summary' = SortInts(openPorts)
            /\ mpc' = "returned"
       ELSE /\ mpc' = "loop"
            /\ UNCHANGED summary
    /\ UNCHANGED <<prog, ports, reqConc, maxConcurrent, tpc, tres, semaphore, wg,
                   resultChan, chanClosed, openPorts, closedPorts, scannedPorts,
                   nextIdx>>
    /\ UNCHANGED nonScanVars

ScanIdle ==
    /\ prog = "none" /\ ports = <<>> /\ reqConc = 0 /\ maxConcurrent = 0
    /\ tpc = <<>>
    /\ tres = <<>> /\ semaphore = 0 /\ wg = 0 /\ resultChan = <<>>
    /\ chanClosed = FALSE /\ openPorts = <<>> /\ closedPorts = <<>>
    /\ scannedPorts = 0 /\ mpc = "idle" /\ nextIdx = 1 /\ summary = NoResult

ConnIdle ==
    /\ cargs = [argc |-> 0] /\ cpc = "idle" /\ ctimeout = 0 /\ probes = <<>>
    /\ cresults = <<>> /\ now = 0 /\ cout = [kind |-> "none"] /\ cexit = -1

TraceIdle ==
    /\ tos = "none" /\ toutput = <<>> /\ trpc = "idle" /\ thops = <<>>

ParseIdle ==
    /\ pprog = "none" /\ pspec = <<>> /\ pcidrOk = FALSE /\ ppc = "idle"
    /\ presult = NoResult /\ pexit = -1 /\ pscan = FALSE



----------------------------------------------------------------------------
\* Port scan claims

\* C1: the summary returned by scanPortsWithRateLimit has
\* len(openPorts) + len(closedPorts) = portsScanned = len(ports), and the
\* results are exactly the port tasks' results, each once.
RECURSIVE CountIn(_, _)
CountIn(s, x) ==
    IF s = <<>> THEN 0 ELSE (IF Head(s) = x THEN 1 ELSE 0) + CountIn(Tail(s), x)

C1_SummaryCountsEveryPort ==
    (prog = "portscan" /\ mpc = "returned") =>
        /\ Len(summary.OpenPorts) + Len(summary.ClosedPorts) = summary.PortsScanned
        /\ summary.PortsScanned = Len(ports)
        /\ \A r \in Range(tres) :
              CountIn(summary.OpenPorts \o summary.ClosedPorts, r)
                 = Cardinality({i \in Tasks : tres[i] = r})

C1_Witness ==
    /\ prog = "portscan" /\ mpc = "returned" /\ Len(ports) = MaxPortsLen
    /\ Len(summary.OpenPorts) >= 1 /\ Len(summary.ClosedPorts) >= 1

\* C2 (as claimed): the openPorts list of the returned summary is strictly
\* ascending by port number.
C2_OpenPortsStrictlyAscending ==
    (prog = "portscan" /\ mpc = "returned") =>
        \A i \in 1..Len(summary.OpenPorts) - 1 :
            summary.OpenPorts[i].Port < summary.OpenPorts[i + 1].Port

\* C10: the number of port tasks holding a semaphore slot never exceeds the
\* configured maximum concurrency, in portscan and in the sweep's scanPorts.
HoldingSlot(i) ==
    IF prog = "portscan" THEN tpc[i] \in {"dial", "send", "release"}
    ELSE tpc[i] \in {"dial", "append", "count", "release"}

ConfiguredMax ==
    IF prog = "portscan" THEN maxConcurrent
    ELSE IF Len(ports) > LargeScanThreshold THEN SweepLargeConcurrency
    ELSE SweepConcurrency

C10_SlotsBounded ==
    Cardinality({i \in Tasks : HoldingSlot(i)}) <= ConfiguredMax

C10_Witness ==
    /\ Cardinality({i \in Tasks : HoldingSlot(i)}) = ConfiguredMax
    /\ \E i \in Tasks : tpc[i] \in {"acquire", "idle"}
    /\ Len(ports) > ConfiguredMax

\* C11: a scan of more ports than the large-scan threshold never has more
\* connection attempts in flight than the large-scan ceiling of its program,
\* whatever concurrency was requested; portscan on a list of at most the
\* threshold runs with exactly the concurrency requested.
IsLargeScan ==
    IF prog = "portscan" THEN Len(ports) > PortscanLargeThreshold
    ELSE Len(ports) > LargeScanThreshold

LargeScanCeiling ==
    IF prog = "portscan" THEN PortscanLargeCeiling ELSE SweepLargeConcurrency

C11_LargeScanClamped ==
    /\ IsLargeScan =>
          /\ Cardinality({i \in Tasks : HoldingSlot(i)}) <= LargeScanCeiling
          /\ semaphore <= LargeScanCeiling
    /\ (prog = "portscan" /\ mpc # "main" /\ reqConc > 0 /\ ~IsLargeScan) =>
          /\ maxConcurrent = reqConc
          /\ semaphoreCap = reqConc

C11_Witness ==
    /\ prog = "portscan" /\ IsLargeScan
    /\ reqConc > PortscanLargeCeiling
    /\ Cardinality({i \in Tasks : HoldingSlot(i)}) = PortscanLargeCeiling
    /\ \E i \in Tasks : tpc[i] = "acquire"

\* C21 (as claimed): the port list is processed in chunks of the fixed size,
\* one chunk after another: no port task of a later chunk has started its dial
\* while a port task of an earlier chunk has not finished, in portscan and in
\* the sweep.
ChunkOf(i) == (i - 1) \div ChunkSize

DialStarted(i) == tpc[i] \notin {"idle", "acquire"}

TaskFinished(i) == tpc[i] = "done"

ChunksInSequence ==
    \A i, j \in Tasks :
        (ChunkOf(i) < ChunkOf(j) /\ DialStarted(j)) => TaskFinished(i)

ChannelSafe ==
    /\ \A i \in Tasks : tpc[i] = "send" =>
          ~chanClosed /\ Len(resultChan) < NumPorts
    /\ chanClosed => (semaphore = 0 /\ \A i \in Tasks : tpc[i] = "done")
    /\ mpc = "returned" =>
          /\ chanClosed /\ resultChan = <<>>
          /\ Len(openPorts) + Len(closedPorts) = NumPorts

\* C28: every call of scanPortsWithRateLimit terminates under weak fairness:
\* each task takes a slot, delivers and gives the slot back, the result
\* channel is closed once, after the last delivery, the collecting loop ends,
\* and no send blocks or meets a closed channel.
C28_ScanTerminates ==
    /\ [](prog = "portscan" => ChannelSafe)
    /\ [][chanClosed => chanClosed']_vars
    /\ <>(mpc = "returned")

C28_Witness ==
    /\ prog = "portscan" /\ mpc = "returned"
    /\ NumPorts > semaphoreCap
    /\ chanClosed /\ semaphore = 0
    /\ \A i \in Tasks : tpc[i] = "done"

----------------------------------------------------------------------------
\* Port specifications: portscan's parsePortRange and net-grab's parsePortSpec.
\* A string is a sequence of one-character strings.

Digits == <<"0", "1", "2", "3", "4", "5", "6", "7", "8", "9">>
DigitSet == Range(Digits)
DigitVal(c) == (CHOOSE i \in 1..10 : Digits[i] = c) - 1

NoErr == [fmt |-> "", arg |-> <<>>]
Errorf(f, a) == [fmt |-> f, arg |-> a]

RECURSIVE SplitAcc(_, _, _, _)
SplitAcc(s, sep, cur, acc) ==
    IF s = <<>> THEN Append(acc, cur)
    ELSE IF Head(s) = sep THEN SplitAcc(Tail(s), sep, <<>>, Append(acc, cur))
    ELSE SplitAcc(Tail(s), sep, Append(cur, Head(s)), acc)

\* strings.Split(s, sep) for a one-character separator
Split(s, sep) == SplitAcc(s, sep, <<>>, <<>>)

\* strings.Contains(s, c) for a one-character c
Contains(s, c) == \E i \in 1..Len(s) : s[i] = c

RECURSIVE TrimLeft(_)
TrimLeft(s) == IF s # <<>> /\ Head(s) = " " THEN TrimLeft(Tail(s)) ELSE s

RECURSIVE TrimRight(_)
TrimRight(s) ==
    IF s # <<>> /\ s[Len(s)] = " " THEN TrimRight(SubSeq(s, 1, Len(s) - 1)) ELSE s

\* strings.TrimSpace
TrimSpace(s) == TrimRight(TrimLeft(s))

\* strings.ToLower on the letters of the alphabet used
ToLower(s) == [i \in 1..Len(s) |-> IF s[i] = "A" THEN "a" ELSE s[i]]

RECURSIVE DigitsVal(_)
DigitsVal(d) ==
    IF d = <<>> THEN 0
    ELSE DigitsVal(SubSeq(d, 1, Len(d) - 1)) * 10 + DigitVal(d[Len(d)])

\* strconv.Atoi: optional sign, then at least one digit and only digits
Atoi(s) ==
    LET signed == s # <<>> /\ s[1] \in {"+", "-"}
        d == IF signed THEN Tail(s) ELSE s
        ok == d # <<>> /\ \A i \in 1..Len(d) : d[i] \in DigitSet
    IN  [ok |-> ok,
         val |-> IF ~ok THEN 0
                 ELSE IF signed /\ s[1] = "-" THEN 0 - DigitsVal(d) ELSE DigitsVal(d)]

RECURSIVE NatToStr(_)
NatToStr(n) ==
    IF n < 10 THEN <<Digits[n + 1]>>
    ELSE Append(NatToStr(n \div 10), Digits[(n % 10) + 1])

\* the %d verb of fmt
Itoa(n) == IF n < 0 THEN <<"-">> \o NatToStr(0 - n) ELSE NatToStr(n)

\* the ports start, start+1, ..., end
PortRun(start, end) == [i \in 1..(end - start + 1) |-> start + i - 1]

RECURSIVE parsePortRangeFrom(_, _, _)
parsePortRangeFrom(rangeStrings, k, acc) ==
    IF k > Len(rangeStrings) THEN [err |-> NoErr, ports |-> acc]
    ELSE
      LET rs == TrimSpace(rangeStrings[k]) IN
      IF Contains(rs, "-")
      THEN LET rangeParts == Split(rs, "-") IN
           IF Len(rangeParts) # 2
           THEN [err |-> Errorf("invalid port range: %s", rs), ports |-> <<>>]
           ELSE LET start == Atoi(rangeParts[1])
                    end == Atoi(rangeParts[2])
                IN  IF ~start.ok
                    THEN [err |-> Errorf("invalid start port: %s", rangeParts[1]),
                          ports |-> <<>>]
                    ELSE IF ~end.ok
                    THEN [err |-> Errorf("invalid end port: %s", rangeParts[2]),
                          ports |-> <<>>]
                    ELSE IF start.val > end.val \/ start.val < 1 \/ end.val > 65535
                    THEN [err |-> Errorf("invalid port range: %s (must be 1-65535)", rs),
                          ports |-> <<>>]
                    ELSE parsePortRangeFrom(rangeStrings, k + 1,
                                            acc \o PortRun(start.val, end.val))
      ELSE LET port == Atoi(rs) IN
           IF ~port.ok
           THEN [err |-> Errorf("invalid port: %s", rs), ports |-> <<>>]
           ELSE IF port.val < 1 \/ port.val > 65535
           THEN [err |-> Errorf("port must be between 1 and 65535: %d", Itoa(port.val)),
                 ports |-> <<>>]
           ELSE parsePortRangeFrom(rangeStrings, k + 1, Append(acc, port.val))

\* parsePortRange that skips a token it cannot accept instead of returning the
\* error (the way connectivity's main treats its port list)
RECURSIVE parsePortRangeSkipping(_, _, _)
parsePortRangeSkipping(rangeStrings, k, acc) ==
    IF k > Len(rangeStrings) THEN [err |-> NoErr, ports |-> acc]
    ELSE LET one == parsePortRangeFrom(<<rangeStrings[k]>>, 1, <<>>) IN
         parsePortRangeSkipping(rangeStrings, k + 1,
                                IF one.err = NoErr THEN acc \o one.ports ELSE acc)

parsePortRange_SkipInvalid(portsArg) ==
    parsePortRangeSkipping(Split(portsArg, ","), 1, <<>>)

\* portscan: parsePortRange(portsArg)
parsePortRange(portsArg) == parsePortRangeFrom(Split(portsArg, ","), 1, <<>>)

NoOpts == [Ports |-> <<>>, StartPort |-> 0, EndPort |-> 0, ScanAll |-> FALSE]

RECURSIVE parsePortList(_, _, _)
parsePortList(items, k, acc) ==
    IF k > Len(items)
    THEN [err |-> NoErr, opts |-> [NoOpts EXCEPT !.Ports = acc]]
    ELSE LET port == Atoi(TrimSpace(items[k])) IN
         IF ~port.ok \/ port.val < 1 \/ port.val > MaxPort
         THEN [err |-> Errorf("invalid port: %s", items[k]), opts |-> NoOpts]
         ELSE parsePortList(items, k + 1, Append(acc, port.val))

\* net-grab: parsePortSpec(spec)
parsePortSpec(spec) ==
    IF ToLower(spec) = <<"a", "l", "l">>
    THEN [err |-> NoErr,
          opts |-> [Ports |-> <<>>, StartPort |-> 1, EndPort |-> MaxPort,
                    ScanAll |-> TRUE]]
    ELSE IF Contains(spec, ",")
    THEN parsePortList(Split(spec, ","), 1, <<>>)
    ELSE IF Contains(spec, "-")
    THEN LET parts == Split(spec, "-") IN
         IF Len(parts) # 2
         THEN [err |-> Errorf("invalid port range: %s", spec), opts |-> NoOpts]
         ELSE LET start == Atoi(TrimSpace(parts[1]))
                  end == Atoi(TrimSpace(parts[2]))
              IN  IF ~start.ok \/ start.val < 1 \/ start.val > MaxPort
                  THEN [err |-> Errorf("invalid start port: %s", parts[1]),
                        opts |-> NoOpts]
                  ELSE IF ~end.ok \/ end.val < 1 \/ end.val > MaxPort
                  THEN [err |-> Errorf("invalid end port: %s", parts[2]),
                        opts |-> NoOpts]
                  ELSE [err |-> NoErr,
                        opts |-> [Ports |-> <<>>,
                                  StartPort |-> IF start.val > end.val
                                                THEN end.val ELSE start.val,
                                  EndPort |-> IF start.val > end.val
                                              THEN start.val ELSE end.val,
                                  ScanAll |-> FALSE]]
    ELSE LET port == Atoi(spec) IN
         IF ~port.ok \/ port.val < 1 \/ port.val > MaxPort
         THEN [err |-> Errorf("invalid port: %s", spec), opts |-> NoOpts]
         ELSE [err |-> NoErr, opts |-> [NoOpts EXCEPT !.Ports = <<port.val>>]]

\* ---- the executables' handling of the port specification -------------------

\* Tokens the specifications of the model are built from
SpecTokens ==
    { <<"8", "0">>, <<"4", "4", "3">>, <<"1", "-", "3">>, <<"3", "-", "1">>,
      <<"1", "0", "0", "-", "5", "0">>, <<"7", "-", "7">>,
      <<"a", "l", "l">>, <<"A", "l", "l">>, <<"a", "b", "c">>,
      <<"7", "0", "0", "0", "0">>, <<"6", "5", "5", "3", "5">>,
      <<"6", "5", "5", "3", "6">>, <<"0">>, <<"0", "0">>, <<>>,
      <<" ", "2", "2">>, <<"1", "-", "a", "b", "c">>, <<"a", "b", "c", "-", "3">>,
      <<"1", "-", "7", "0", "0", "0", "0">>, <<"1", "-", "2", "-", "3">>,
      <<"-", "5">>, <<"0", "-", "3">> }

ListTokens == { <<"8", "0">>, <<"a", "b", "c">>, <<"3", "-", "1">> }

MaxSpecTokens == 2   \* specifications of up to this many tokens over SpecTokens

RECURSIVE Join(_)
Join(items) ==
    IF Len(items) = 1 THEN items[1]
    ELSE items[1] \o <<",">> \o Join(Tail(items))

PortSpecs ==
    {Join(l) : l \in SeqsUpTo(SpecTokens, MaxSpecTokens) \ {<<>>}}
    \cup {Join(l) : l \in {t \in SeqsUpTo(ListTokens, 3) : Len(t) = 3}}

ParseInit ==
    /\ pprog \in {"portscan", "netgrab"}
    /\ pspec \in PortSpecs
    /\ pcidrOk \in BOOLEAN
    /\ pcidrOk = FALSE => pprog = "netgrab"
    /\ ppc = "start"
    /\ presult = NoResult
    /\ pexit = -1
    /\ pscan = FALSE

\* portscan main: parse the port range, refuse an error or an empty list,
\* otherwise scan and print the summary
Main_portscan ==
    /\ pprog = "portscan" /\ ppc = "start"
    /\ LET r == parsePortRange(pspec) IN
         /\ presult' = r
         /\ IF r.err # NoErr \/ Len(r.ports) = 0
            THEN pexit' = 1 /\ pscan' = FALSE
            ELSE pexit' = 0 /\ pscan' = TRUE
    /\ ppc' = "done"
    /\ UNCHANGED <<pprog, pspec, pcidrOk>>
    /\ UNCHANGED nonParseVars

\* net-grab main: parse the -p specification, then sweep the CIDR block
Main_netgrab ==
    /\ pprog = "netgrab" /\ ppc = "start"
    /\ LET r == parsePortSpec(pspec) IN
         /\ presult' = r
         /\ IF r.err # NoErr
            THEN pexit' = 1 /\ pscan' = FALSE
            ELSE IF ~pcidrOk
            THEN pexit' = 1 /\ pscan' = FALSE
            ELSE pexit' = 0 /\ pscan' = TRUE
    /\ ppc' = "done"
    /\ UNCHANGED <<pprog, pspec, pcidrOk>>
    /\ UNCHANGED nonParseVars


----------------------------------------------------------------------------
\* Port specification claims

\* The grammar of section 4.2, read independently of the parsers: a numeral is
\* a non-empty string of digits; a port is a numeral with a value in 1..65535.
IsNumeral(t) == t # <<>> /\ \A i \in 1..Len(t) : t[i] \in DigitSet
IsPort(t) == IsNumeral(t) /\ DigitsVal(t) >= 1 /\ DigitsVal(t) <= 65535
IsRange(t) ==
    LET b == Split(t, "-") IN Len(b) = 2 /\ IsPort(b[1]) /\ IsPort(b[2])
IsAll(spec) == spec = <<"a", "l", "l">>

ValidSpec(spec) ==
    \/ IsAll(spec)
    \/ \A t \in Range(Split(spec, ",")) : IsPort(t) \/ IsRange(t)

ItemSet(t) ==
    IF IsPort(t) THEN {DigitsVal(t)}
    ELSE LET b == Split(t, "-")
             lo == IF DigitsVal(b[1]) <= DigitsVal(b[2]) THEN DigitsVal(b[1])
                   ELSE DigitsVal(b[2])
             hi == IF DigitsVal(b[1]) <= DigitsVal(b[2]) THEN DigitsVal(b[2])
                   ELSE DigitsVal(b[1])
         IN  lo..hi

GrammarSet(spec) ==
    IF IsAll(spec) THEN 1..65535
    ELSE UNION {ItemSet(t) : t \in Range(Split(spec, ","))}

\* C3 (as claimed): for every valid port specification parsePortRange succeeds
\* and the set of expanded ports is the union the grammar describes.
C3_ValidSpecExpandsToGrammar ==
    (pprog = "portscan" /\ ppc = "done" /\ ValidSpec(pspec)) =>
        /\ presult.err = NoErr
        /\ Range(presult.ports) = GrammarSet(pspec)

\* The pieces of a specification: its comma-separated items and their bounds.
Pieces(spec) ==
    Range(Split(spec, ","))
    \cup UNION {Range(Split(t, "-")) : t \in Range(Split(spec, ","))}

\* A malformed token: a bound or item that, blanks aside, is not a numeral or
\* whose value is outside 1..65535.
Malformed(t) == ~IsPort(TrimSpace(t)) /\ ~Contains(t, "-")
HasMalformedToken(spec) ==
    /\ ToLower(spec) # <<"a", "l", "l">>
    /\ \E t \in Pieces(spec) : Malformed(t)

IsSubstring(t, m) ==
    \E i \in 0..(Len(m) - Len(t)) : SubSeq(m, i + 1, i + Len(t)) = t

\* The message names a token of the specification that is not a port: the
\* token's text is in the formatted argument, or the argument is the decimal
\* value of a numeric token.
NamesOffendingToken(spec, err) ==
    \E t \in Pieces(spec) :
        /\ ~IsPort(TrimSpace(t))
        /\ \/ IsSubstring(t, err.arg) /\ (t = <<>> => err.arg = <<>>)
           \/ Atoi(TrimSpace(t)).ok /\ err.arg = Itoa(Atoi(TrimSpace(t)).val)

C3_Witness ==
    /\ pprog = "portscan" /\ ppc = "done"
    /\ pspec = <<"1", "-", "3", ",", "8", "0">>
    /\ presult.ports = <<1, 2, 3, 80>>

----------------------------------------------------------------------------
\* Host sweep: Scanner.scanNetwork and Scanner.scanHost

\* An IPv4 address is a sequence of four bytes.
Pow2(n) == IF n = 0 THEN 1 ELSE IF n = 1 THEN 2 ELSE IF n = 2 THEN 4
           ELSE IF n = 3 THEN 8 ELSE IF n = 4 THEN 16 ELSE IF n = 5 THEN 32
           ELSE IF n = 6 THEN 64 ELSE IF n = 7 THEN 128 ELSE 256

\* one byte of ip.Mask(mask) for a prefix of `ones` leading one bits
MaskByte(b, ones, j) ==
    LET covered == ones - 8 * (j - 1)
        bits == IF covered < 0 THEN 0 ELSE IF covered > 8 THEN 8 ELSE covered
    IN  b - (b % Pow2(8 - bits))

\* ip.Mask(ipnet.Mask)
Mask(ip, ones) ==
    <<MaskByte(ip[1], ones, 1), MaskByte(ip[2], ones, 2),
      MaskByte(ip[3], ones, 3), MaskByte(ip[4], ones, 4)>>

\* ipnet.Contains(ip)
NetContains(network, ones, ip) == Mask(ip, ones) = network

RECURSIVE incFrom(_, _)
incFrom(ip, j) ==
    IF j < 1 THEN ip
    ELSE LET b == (ip[j] + 1) % 256
             ip2 == [ip EXCEPT ![j] = b]
         IN  IF b > 0 THEN ip2 ELSE incFrom(ip2, j - 1)

\* inc(ip): add one to the address, carrying into the higher bytes
inc(ip) == incFrom(ip, 4)

RECURSIVE expandFrom(_, _, _, _)
expandFrom(ip, network, ones, acc) ==
    IF ~NetContains(network, ones, ip) THEN acc
    ELSE LET acc2 == Append(acc, ip) IN
         IF Len(acc2) >= MaxHostsCap THEN acc2
         ELSE expandFrom(inc(ip), network, ones, acc2)

\* the host list scanNetwork builds from a parsed CIDR block
expandHosts(c) == expandFrom(Mask(c.ip, c.ones), Mask(c.ip, c.ones), c.ones, <<>>)

CidrInputs ==
    { [ok |-> FALSE],
      [ok |-> TRUE, ip |-> <<203, 0, 113, 0>>, ones |-> 31],
      [ok |-> TRUE, ip |-> <<10, 0, 0, 5>>, ones |-> 32],
      [ok |-> TRUE, ip |-> <<10, 0, 0, 254>>, ones |-> 30],
      [ok |-> TRUE, ip |-> <<10, 0, 255, 255>>, ones |-> 31],
      [ok |-> TRUE, ip |-> <<255, 255, 255, 255>>, ones |-> 32] }

\* What the ping subprocess can produce: its exit status, the counts of its
\* summary line when there is one, and the RTT sample lines.
PingTranscripts ==
    { [exitOk |-> TRUE,  summary |-> TRUE,  tx |-> 4, rx |-> 4, samples |-> 4],
      [exitOk |-> FALSE, summary |-> TRUE,  tx |-> 4, rx |-> 0, samples |-> 0],
      [exitOk |-> FALSE, summary |-> FALSE, tx |-> 0, rx |-> 0, samples |-> 0],
      [exitOk |-> FALSE, summary |-> FALSE, tx |-> 0, rx |-> 0, samples |-> 1] }

\* detailedPing + parsePingOutput: the packet counts of the PingStats
detailedPing(t) ==
    LET sent == IF t.summary THEN t.tx ELSE PingCount
        recv0 == IF t.summary THEN t.rx ELSE 0
        recv == IF t.samples > 0 /\ recv0 = 0 THEN t.samples ELSE recv0
    IN  [PacketsSent |-> sent, PacketsReceived |-> recv, Failed |-> ~t.exitOk]

\* The ports the sweep scans on a reachable host
SweepPorts == <<80>>

RECURSIVE SubSeqs(_)
SubSeqs(l) ==
    IF l = <<>> THEN {<<>>}
    ELSE LET rest == SubSeqs(Tail(l))
         IN  rest \cup {<<Head(l)>> \o r : r \in rest}

\* Scanner.scanPorts as a whole: the sorted list of the ports that answered
scanPortsResults == {SortInts(l) : l \in SubSeqs(SweepPorts)}

NoInfo == [IPAddress |-> <<>>, Hostname |-> "", IsReachable |-> FALSE,
           PingStats |-> [PacketsSent |-> 0, PacketsReceived |-> 0, Failed |-> FALSE],
           OpenPorts |-> <<>>]

NumHosts == Len(hosts)
Workers == 1..NumHosts

SweepInit ==
    /\ cidr \in CidrInputs
    /\ hosts = <<>> /\ spc = "start" /\ sidx = 1
    /\ sem = 0 /\ swg = 0 /\ wpc = <<>> /\ info = <<>> /\ mu = 0
    /\ wtmp = <<>> /\ results = <<>> /\ hostsScanned = 0 /\ serr = "none"

\* ip, ipnet, err := net.ParseCIDR(cidr); the expansion loop
SN_Start ==
    /\ spc = "start"
    /\ IF ~cidr.ok
       THEN /\ serr' = "error"
            /\ spc' = "returned"
            /\ UNCHANGED <<hosts, wpc, info, wtmp>>
       ELSE /\ hosts' = expandHosts(cidr)
            /\ wpc' = [i \in 1..Len(expandHosts(cidr)) |-> "idle"]
            /\ info' = [i \in 1..Len(expandHosts(cidr)) |-> NoInfo]
            /\ wtmp' = [i \in 1..Len(expandHosts(cidr)) |-> <<>>]
            /\ spc' = "loop"
            /\ UNCHANGED serr
    /\ UNCHANGED <<cidr, sidx, sem, swg, mu, results, hostsScanned>>
    /\ UNCHANGED nonSweepVars

\* the worker started without a slot of the semaphore channel (mutant)
SN_Spawn_NoSlot ==
    /\ spc = "loop" /\ sidx <= NumHosts
    /\ swg' = swg + 1
    /\ sem' = sem + 1
    /\ wpc' = [wpc EXCEPT ![sidx] = "ping"]
    /\ info' = [info EXCEPT ![sidx] = [NoInfo EXCEPT !.IPAddress = hosts[sidx]]]
    /\ sidx' = sidx + 1
    /\ UNCHANGED <<cidr, hosts, spc, mu, wtmp, results, hostsScanned, serr>>
    /\ UNCHANGED nonSweepVars

\* for _, host := range hosts { wg.Add(1); sem <- struct{}{}; go func(ip) }
SN_Spawn ==
    /\ spc = "loop" /\ sidx <= NumHosts
    /\ sem < SweepWorkers
    /\ swg' = swg + 1
    /\ sem' = sem + 1
    /\ wpc' = [wpc EXCEPT ![sidx] = "ping"]
    /\ info' = [info EXCEPT ![sidx] = [NoInfo EXCEPT !.IPAddress = hosts[sidx]]]
    /\ sidx' = sidx + 1
    /\ UNCHANGED <<cidr, hosts, spc, mu, wtmp, results, hostsScanned, serr>>
    /\ UNCHANGED nonSweepVars

\* scanHost: pingStats := s.detailedPing(...); info.IsReachable = received > 0
W_Ping(i) ==
    /\ wpc[i] = "ping"
    /\ \E t \in PingTranscripts :
          info' = [info EXCEPT ![i].PingStats = detailedPing(t),
                               ![i].IsReachable = detailedPing(t).PacketsReceived > 0]
    /\ wpc' = [wpc EXCEPT ![i] = "dns"]
    /\ UNCHANGED <<cidr, hosts, spc, sidx, sem, swg, mu, wtmp, results,
                   hostsScanned, serr>>
    /\ UNCHANGED nonSweepVars

\* scanHost: names, err := net.LookupAddr(ip)
W_DNS(i) ==
    /\ wpc[i] = "dns"
    /\ \E name \in {"", "host.example"} :
          info' = [info EXCEPT ![i].Hostname = name]
    /\ wpc' = [wpc EXCEPT ![i] = "ports"]
    /\ UNCHANGED <<cidr, hosts, spc, sidx, sem, swg, mu, wtmp, results,
                   hostsScanned, serr>>
    /\ UNCHANGED nonSweepVars

\* scanHost with the port scan run for every host (mutant)
W_Ports_Always(i) ==
    /\ wpc[i] = "ports"
    /\ \E open \in scanPortsResults :
          info' = [info EXCEPT ![i].OpenPorts = open]
    /\ wpc' = [wpc EXCEPT ![i] = "lock"]
    /\ UNCHANGED <<cidr, hosts, spc, sidx, sem, swg, mu, wtmp, results,
                   hostsScanned, serr>>
    /\ UNCHANGED nonSweepVars

\* scanHost: if info.IsReachable { info.OpenPorts = s.scanPorts(ip) }
W_Ports(i) ==
    /\ wpc[i] = "ports"
    /\ IF info[i].IsReachable
       THEN \E open \in scanPortsResults :
               info' = [info EXCEPT ![i].OpenPorts = open]
       ELSE UNCHANGED info
    /\ wpc' = [wpc EXCEPT ![i] = "lock"]
    /\ UNCHANGED <<cidr, hosts, spc, sidx, sem, swg, mu, wtmp, results,
                   hostsScanned, serr>>
    /\ UNCHANGED nonSweepVars

\* the append started without waiting for the mutex (mutant)
W_Lock_NoMutex(i) ==
    /\ wpc[i] = "lock"
    /\ mu' = i
    /\ wtmp' = [wtmp EXCEPT ![i] = results]
    /\ wpc' = [wpc EXCEPT ![i] = "append"]
    /\ UNCHANGED <<cidr, hosts, spc, sidx, sem, swg, info, results,
                   hostsScanned, serr>>
    /\ UNCHANGED nonSweepVars

\* s.mu.Lock(); append reads s.results
W_Lock(i) ==
    /\ wpc[i] = "lock"
    /\ mu = 0
    /\ mu' = i
    /\ wtmp' = [wtmp EXCEPT ![i] = results]
    /\ wpc' = [wpc EXCEPT ![i] = "append"]
    /\ UNCHANGED <<cidr, hosts, spc, sidx, sem, swg, info, results,
                   hostsScanned, serr>>
    /\ UNCHANGED nonSweepVars

\* s.results = append(s.results, info); s.mu.Unlock()
W_Append(i) ==
    /\ wpc[i] = "append"
    /\ results' = Append(wtmp[i], info[i])
    /\ mu' = 0
    /\ wpc' = [wpc EXCEPT ![i] = "count"]
    /\ UNCHANGED <<cidr, hosts, spc, sidx, sem, swg, info, wtmp,
                   hostsScanned, serr>>
    /\ UNCHANGED nonSweepVars

\* atomic.AddInt32(&s.hostsScanned, 1)
W_Count(i) ==
    /\ wpc[i] = "count"
    /\ hostsScanned' = hostsScanned + 1
    /\ wpc' = [wpc EXCEPT ![i] = "release"]
    /\ UNCHANGED <<cidr, hosts, spc, sidx, sem, swg, info, mu, wtmp, results,
                   serr>>
    /\ UNCHANGED nonSweepVars

\* deferred: <-sem; wg.Done()
W_Release(i) ==
    /\ wpc[i] = "release"
    /\ sem' = sem - 1
    /\ swg' = swg - 1
    /\ wpc' = [wpc EXCEPT ![i] = "done"]
    /\ UNCHANGED <<cidr, hosts, spc, sidx, info, mu, wtmp, results,
                   hostsScanned, serr>>
    /\ UNCHANGED nonSweepVars

\* wg.Wait(); return nil
SN_Wait ==
    /\ spc = "loop" /\ sidx > NumHosts
    /\ swg = 0
    /\ spc' = "returned"
    /\ serr' = "nil"
    /\ UNCHANGED <<cidr, hosts, sidx, sem, swg, wpc, info, mu, wtmp, results,
                   hostsScanned>>
    /\ UNCHANGED nonSweepVars

----------------------------------------------------------------------------
\* Host sweep claims

\* C5: a HostInfo has open ports only if it is reachable, in the results and
\* in every HostInfo under construction.
C5_OpenPortsOnlyIfReachable ==
    /\ \A k \in 1..Len(results) :
          Len(results[k].OpenPorts) > 0 => results[k].IsReachable
    /\ \A i \in Workers :
          Len(info[i].OpenPorts) > 0 => info[i].IsReachable

C5_Witness ==
    /\ spc = "returned" /\ serr = "nil"
    /\ \E k \in 1..Len(results) :
          /\ ~results[k].IsReachable /\ results[k].OpenPorts = <<>>
          /\ results[k].Hostname # ""
    /\ \E k \in 1..Len(results) :
          results[k].IsReachable /\ Len(results[k].OpenPorts) > 0

\* C6: when scanNetwork returns for a valid CIDR it returns nil and the results
\* hold exactly one HostInfo for each expanded address, a host that did not
\* answer being present as unreachable; it returns an error exactly when the
\* CIDR does not parse.
C6_OneResultPerHost ==
    spc = "returned" =>
        /\ (serr = "error") <=> ~cidr.ok
        /\ cidr.ok =>
              /\ serr = "nil"
              /\ Len(results) = Len(expandHosts(cidr))
              /\ \A k \in 1..Len(results) :
                    results[k].IsReachable <=> results[k].PingStats.PacketsReceived > 0
              /\ \A h \in Range(expandHosts(cidr)) :
                    Cardinality({k \in 1..Len(results) : results[k].IPAddress = h}) = 1

C6_Witness ==
    /\ spc = "returned" /\ cidr.ok /\ Len(results) = MaxHostsCap
    /\ \E k \in 1..Len(results) : ~results[k].IsReachable
    /\ results[1].IPAddress # hosts[1]

\* C12: at most SweepWorkers hosts are in process at any time (from the start
\* of their worker to the release of its slot), so at most SweepWorkers ping
\* subprocesses run together, and every worker in process holds a slot.
InProcess(i) == wpc[i] \notin {"idle", "done"}

C12_WorkerPoolBounded ==
    /\ Cardinality({i \in Workers : InProcess(i)}) <= SweepWorkers
    /\ Cardinality({i \in Workers : wpc[i] = "ping"}) <= SweepWorkers
    /\ Cardinality({i \in Workers : InProcess(i)}) = sem

C12_Witness ==
    /\ NumHosts > SweepWorkers /\ spc = "loop" /\ sidx <= NumHosts
    /\ Cardinality({i \in Workers : wpc[i] = "ping"}) = SweepWorkers
    /\ wpc[sidx] = "idle"

----------------------------------------------------------------------------
\* Traceroute: parseTracerouteOutput and the line parsers.
\* A line is the sequence of its blank-separated tokens.  A token records its
\* kind and, in `tail`, the number its trailing digits spell (-1 if it does
\* not end in a digit).

TInt(n)  == [k |-> "int",  tail |-> n,  s |-> "", addr |-> -1]    \* 12
TName(h) == [k |-> "name", tail |-> -1, s |-> h,  addr |-> -1]    \* gw.example.net
TIp(a)   == [k |-> "ip",   tail |-> a,  s |-> "", addr |-> a]     \* 10.0.0.a
TPip(a)  == [k |-> "pip",  tail |-> -1, s |-> "", addr |-> a]     \* (10.0.0.a)
TFlt(x)  == [k |-> "flt",  tail |-> x,  s |-> "", addr |-> -1]    \* 1.x
TMs      == [k |-> "ms",   tail |-> -1, s |-> "ms", addr |-> -1]
TStar    == [k |-> "star", tail |-> -1, s |-> "*", addr |-> -1]
TWord(w) == [k |-> "word", tail |-> -1, s |-> w,  addr |-> -1]    \* header words

Tok(line, j) ==
    IF j >= 1 /\ j <= Len(line) THEN line[j] ELSE [k |-> "eol", tail |-> -1, s |-> "", addr |-> -1]

\* [a-zA-Z0-9.-]+ matching a whole token
NameClass(t) == t.k \in {"int", "name", "ip", "flt", "ms", "word"}

\* (\d+\.\d+)\s+ms three times, starting at token j
ThreeRtts(line, j) ==
    \A m \in 0..2 : Tok(line, j + 2 * m).k = "flt" /\ Tok(line, j + 2 * m + 1).k = "ms"

\* [*]\s+[*]\s+[*] starting at token j
ThreeStars(line, j) == \A m \in 0..2 : Tok(line, j + m).k = "star"

\* the first alternative of the hop pattern: hostname, address in parentheses
HostAlt(line, i) == NameClass(Tok(line, i + 1)) /\ Tok(line, i + 2).k = "pip"

\* the hop pattern of parseDarwinTracerouteLine matches with its hop number
\* ending token i
MainMatch(line, i) ==
    /\ Tok(line, i).tail >= 0
    /\ \/ HostAlt(line, i) /\ (ThreeRtts(line, i + 3) \/ ThreeStars(line, i + 3))
       \/ Tok(line, i + 1).k = "star"
            /\ (ThreeRtts(line, i + 2) \/ ThreeStars(line, i + 2))

\* the alternate pattern \s*(\d+)\s+\* \* \*
AsteriskMatch(line, i) == Tok(line, i).tail >= 0 /\ ThreeStars(line, i + 1)

Min(S) == CHOOSE x \in S : \A y \in S : x <= y

ZeroHop == [HopNumber |-> 0, Address |-> -1, Hostname |-> "", TimedOut |-> FALSE,
            LossRate |-> 0, NumRTTs |-> 0]

\* parseDarwinTracerouteLine: the hop pattern, else the all-asterisk pattern,
\* else the zero HopResult
parseDarwinTracerouteLine(line) ==
    LET mm == {i \in 1..Len(line) : MainMatch(line, i)}
        am == {i \in 1..Len(line) : AsteriskMatch(line, i)}
    IN
    IF mm = {}
    THEN IF am # {}
         THEN [ZeroHop EXCEPT !.HopNumber = line[Min(am)].tail,
                              !.TimedOut = TRUE, !.LossRate = 100]
         ELSE ZeroHop
    ELSE LET i == Min(mm)
             host == HostAlt(line, i)
                       /\ (ThreeRtts(line, i + 3) \/ ThreeStars(line, i + 3))
             r == IF host THEN i + 3 ELSE i + 2
             n == IF ThreeRtts(line, r) THEN 3 ELSE 0
             timedOut == \E j \in 1..Len(line) : line[j].k = "star"
         IN  [HopNumber |-> line[i].tail,
              Address |-> IF host THEN line[i + 2].addr ELSE -1,
              Hostname |-> IF host THEN line[i + 1].s ELSE "",
              TimedOut |-> timedOut,
              LossRate |-> IF n > 0 THEN ((3 - n) * 100) \div 3
                           ELSE IF timedOut THEN 100 ELSE 0,
              NumRTTs |-> n]

\* parseLinuxTracerouteLine: the Linux format is parsed by the Darwin parser
parseLinuxTracerouteLine(line) == parseDarwinTracerouteLine(line)

RECURSIVE parseLines(_, _, _, _)
parseLines(os, lines, i, acc) ==
    IF i > Len(lines) THEN acc
    ELSE IF lines[i] = <<>> THEN parseLines(os, lines, i + 1, acc)
    ELSE LET hop == IF os = "darwin" THEN parseDarwinTracerouteLine(lines[i])
                    ELSE parseLinuxTracerouteLine(lines[i])
         IN  parseLines(os, lines, i + 1,
                        IF hop.HopNumber > 0 THEN Append(acc, hop) ELSE acc)

\* parseTracerouteOutput: the first line is the header and is skipped
parseTracerouteOutput(os, lines) == parseLines(os, lines, 2, <<>>)

\* The hop lines a traceroute run can print for hop i
FullHost(i)    == <<TInt(i), TName("gw"), TPip(i), TFlt(1), TMs, TFlt(2), TMs, TFlt(1), TMs>>
FullNumeric(i) == <<TInt(i), TIp(i), TFlt(1), TMs, TFlt(2), TMs, TFlt(1), TMs>>
AllTimeout(i)  == <<TInt(i), TStar, TStar, TStar>>
PartialHost(i) == <<TInt(i), TName("gw"), TPip(i), TFlt(1), TMs, TStar, TFlt(2), TMs>>
PartialStarFirst(i) == <<TInt(i), TStar, TName("gw"), TPip(i), TFlt(1), TMs, TFlt(2), TMs>>
PartialNumeric(i) == <<TInt(i), TIp(i), TFlt(1), TMs, TStar, TStar>>

HopLines(i) == {FullHost(i), FullNumeric(i), AllTimeout(i), PartialHost(i),
                PartialStarFirst(i), PartialNumeric(i)}

HeaderLine == <<TWord("traceroute"), TWord("to"), TIp(9), TPip(9), TInt(30),
                TWord("hops"), TWord("max"), TInt(60), TWord("byte"), TWord("packets")>>

RECURSIVE Transcripts(_)
Transcripts(n) ==
    IF n = 0 THEN {<<HeaderLine>>}
    ELSE Transcripts(n - 1)
         \cup {Append(t, l) : t \in {u \in Transcripts(n - 1) : Len(u) = n},
                              l \in HopLines(n)}

TraceInit ==
    /\ tos \in {"linux", "darwin"}
    /\ toutput \in Transcripts(MaxHopLines)
    /\ trpc = "start"
    /\ thops = <<>>

\* hops := parseTracerouteOutput(string(output))
ParseTrace ==
    /\ trpc = "start"
    /\ thops' = parseTracerouteOutput(tos, toutput)
    /\ trpc' = "done"
    /\ UNCHANGED <<tos, toutput>>
    /\ UNCHANGED nonTraceVars

----------------------------------------------------------------------------
\* Traceroute claims

IsAllTimeout(line) == Len(line) = 4 /\ ThreeStars(line, 2)

\* C7 (as claimed): the hop indices returned for a transcript of n hop lines
\* are 1, 2, ..., n, and a hop whose probes all timed out is emitted with
\* TimedOut set and LossRate 100.
C7_HopIndicesContiguous ==
    trpc = "done" =>
        /\ Len(thops) = Len(toutput) - 1
        /\ \A k \in 1..Len(thops) : thops[k].HopNumber = k
        /\ \A k \in 1..Len(thops) :
              IsAllTimeout(toutput[k + 1]) =>
                  thops[k].TimedOut /\ thops[k].LossRate = 100

C7_Witness ==
    /\ trpc = "done" /\ Len(thops) = MaxHopLines
    /\ \E k \in 1..Len(thops) : thops[k].TimedOut /\ thops[k].LossRate = 100

----------------------------------------------------------------------------
\* Connectivity: main, checkAllConnectivity, checkPing, checkTcpPort,
\* checkUdpPort.  Time is counted in seconds by the clock `now`.

ModeWords == {"ping", "tcp", "udp", "all", "bogus"}
PortWords == { <<"2", "2">>, <<"a", "b", "c">>, <<"2", "2", ",", "x">>, <<"7", ",", "7">> }
TimeoutWords == { <<"1">>, <<"2">>, <<"x">> }

\* the argument vectors of the model: os.Args has argc entries
ConnArgs ==
    { [argc |-> n, mode |-> "", port |-> <<>>, timeout |-> <<>>] : n \in 1..2 }
    \cup { [argc |-> 3, mode |-> m, port |-> <<>>, timeout |-> <<>>] : m \in ModeWords }
    \cup { [argc |-> 4, mode |-> m, port |-> p, timeout |-> <<>>] :
              m \in ModeWords, p \in PortWords }
    \cup { [argc |-> 5, mode |-> m, port |-> p, timeout |-> t] :
              m \in ModeWords, p \in PortWords, t \in TimeoutWords }

\* main: timeout := 5 unless os.Args[4] is a number
timeoutOf(a) ==
    IF a.argc >= 5 /\ Atoi(a.timeout).ok THEN Atoi(a.timeout).val ELSE DefaultTimeout

\* main: the single port of mode tcp / udp
portOf(a, default) ==
    IF a.argc >= 4 /\ Atoi(a.port).ok THEN Atoi(a.port).val ELSE default

RECURSIVE customPorts(_, _, _)
customPorts(words, k, acc) ==
    IF k > Len(words) THEN acc
    ELSE customPorts(words, k + 1,
                     IF Atoi(words[k]).ok THEN Append(acc, Atoi(words[k]).val) ELSE acc)

\* main, mode all: the ports of the argument that are numbers, else 22, 80, 443
portsOf(a) ==
    IF a.argc >= 4 /\ Len(customPorts(Split(a.port, ","), 1, <<>>)) > 0
    THEN customPorts(Split(a.port, ","), 1, <<>>)
    ELSE <<22, 80, 443>>

NewProbe(mode, port) ==
    [mode |-> mode, port |-> port, pc |-> "init", start |-> 0, deadline |-> 0,
     elapsed |-> 0, result |-> NoResult]

\* the probes main starts for the arguments
probesOf(a) ==
    IF a.mode = "all"
    THEN <<NewProbe("ping", 0)>> \o [k \in 1..Len(portsOf(a)) |-> NewProbe("tcp", portsOf(a)[k])]
    ELSE IF a.mode = "ping" THEN <<NewProbe("ping", 0)>>
    ELSE IF a.mode = "tcp" THEN <<NewProbe("tcp", portOf(a, 80))>>
    ELSE IF a.mode = "udp" THEN <<NewProbe("udp", portOf(a, 53))>>
    ELSE <<>>

\* the deadline honoured only as ping's per-packet option -W for its 3 packets
ctxDeadline_PerPacket(start, timeout) == start + 3 * timeout

\* context.WithTimeout(context.Background(), timeout seconds): the moment the
\* operation bound to the context is cancelled
ctxDeadline(start, timeout) == start + timeout

ConnResult(success, message, mode, port) ==
    [Success |-> success, Message |-> message, Mode |-> mode, Port |-> port]

\* the result of a probe whose operation ended with or without an error
probeResult(mode, port, ok) ==
    IF mode = "ping"
    THEN ConnResult(ok, IF ok THEN "Successfully reached %s in %dms"
                        ELSE "Could not reach %s", "ping", 0)
    ELSE IF mode = "tcp"
    THEN ConnResult(ok, IF ok THEN "Successfully connected to %s:%d in %dms"
                        ELSE "Could not connect to %s:%d - %s", "tcp", port)
    ELSE ConnResult(ok, IF ok THEN "UDP port %d on %s appears reachable"
                        ELSE "UDP port %d on %s appears unreachable", "udp", port)

\* main exiting 1 on a mode it does not know (mutant)
exitCodeOf_StrictMode(a) ==
    IF a.argc < 3 \/ a.mode \notin {"ping", "tcp", "udp", "all"} THEN 1 ELSE 0

\* main: os.Exit(1) on fewer than three arguments, otherwise a normal return
exitCodeOf(a) == IF a.argc < 3 THEN 1 ELSE 0

ConnInit ==
    /\ cargs \in ConnArgs
    /\ cpc = "start" /\ ctimeout = 0 /\ probes = <<>> /\ cresults = <<>>
    /\ now = 0 /\ cout = [kind |-> "none"] /\ cexit = -1

Probes == 1..Len(probes)

\* main up to the start of the probes
CM_Start ==
    /\ cpc = "start"
    /\ IF cargs.argc < 3
       THEN /\ cout' = [kind |-> "usage"]
            /\ cexit' = exitCodeOf(cargs)
            /\ cpc' = "exited"
            /\ UNCHANGED <<ctimeout, probes, cresults>>
       ELSE IF cargs.mode \notin {"ping", "tcp", "udp", "all"}
       THEN /\ ctimeout' = timeoutOf(cargs)
            /\ cresults' = <<ConnResult(FALSE,
                               "Unknown mode: %s. Use 'ping', 'tcp', 'udp', or 'all'",
                               cargs.mode, 0)>>
            /\ cout' = [kind |-> "json", results |-> cresults']
            /\ cexit' = exitCodeOf(cargs)
            /\ cpc' = "exited"
            /\ UNCHANGED probes
       ELSE /\ ctimeout' = timeoutOf(cargs)
            /\ probes' = probesOf(cargs)
            /\ cpc' = "running"
            /\ UNCHANGED <<cresults, cout, cexit>>
    /\ UNCHANGED <<cargs, now>>
    /\ UNCHANGED nonConnVars

\* checkPing / checkTcpPort / checkUdpPort: the context is created and the
\* subprocess or dial is started; a ping binary that cannot be started fails
\* at once
P_Start(i) ==
    /\ cpc = "running" /\ probes[i].pc = "init"
    /\ \/ probes' = [probes EXCEPT ![i].pc = "inflight", ![i].start = now,
                                   ![i].deadline = ctxDeadline(now, ctimeout)]
       \/ /\ probes[i].mode = "ping"
          /\ probes' = [probes EXCEPT ![i].pc = "done", ![i].start = now,
                                      ![i].deadline = ctxDeadline(now, ctimeout),
                                      ![i].result = probeResult("ping", 0, FALSE)]
    /\ UNCHANGED <<cargs, cpc, ctimeout, cresults, now, cout, cexit>>
    /\ UNCHANGED nonConnVars

\* the subprocess exits, or the peer accepts, refuses or is written to
P_Finish(i) ==
    /\ cpc = "running" /\ probes[i].pc = "inflight"
    /\ now < probes[i].deadline
    /\ \E ok \in BOOLEAN :
          probes' = [probes EXCEPT ![i].pc = "done",
                                   ![i].elapsed = now - probes[i].start,
                                   ![i].result = probeResult(probes[i].mode,
                                                             probes[i].port, ok)]
    /\ UNCHANGED <<cargs, cpc, ctimeout, cresults, now, cout, cexit>>
    /\ UNCHANGED nonConnVars

\* the context expires: the subprocess is killed, the dial returns an error.
\* A UDP dial does not wait for the peer: at the deadline the write has been
\* handed to the local stack or has failed.
P_Deadline(i) ==
    /\ cpc = "running" /\ probes[i].pc = "inflight"
    /\ now >= probes[i].deadline
    /\ \E ok \in (IF probes[i].mode = "udp" THEN BOOLEAN ELSE {FALSE}) :
          probes' = [probes EXCEPT ![i].pc = "done",
                                   ![i].elapsed = now - probes[i].start,
                                   ![i].result = probeResult(probes[i].mode,
                                                             probes[i].port, ok)]
    /\ UNCHANGED <<cargs, cpc, ctimeout, cresults, now, cout, cexit>>
    /\ UNCHANGED nonConnVars

\* a second passes; an operation bound to a context does not outlive it.
\* Starting a probe and handing over its result take no time.
Tick ==
    /\ cpc = "running" /\ now < MaxClock
    /\ \A i \in Probes : probes[i].pc \notin {"init", "done"}
    /\ \A i \in Probes : probes[i].pc = "inflight" => now < probes[i].deadline
    /\ now' = now + 1
    /\ UNCHANGED <<cargs, cpc, ctimeout, probes, cresults, cout, cexit>>
    /\ UNCHANGED nonConnVars

\* the result is handed over: mutex.Lock(); results = append(...); Unlock()
\* in mode all, result = check...() otherwise
P_Append(i) ==
    /\ cpc = "running" /\ probes[i].pc = "done"
    /\ cresults' = Append(cresults, probes[i].result)
    /\ probes' = [probes EXCEPT ![i] = [NewProbe(probes[i].mode, probes[i].port)
                                          EXCEPT !.pc = "appended"]]
    /\ UNCHANGED <<cargs, cpc, ctimeout, now, cout, cexit>>
    /\ UNCHANGED nonConnVars

\* CM_Print with wg.Wait() lost: main prints what has been appended so far
CM_Print_NoWait ==
    /\ cpc = "running"
    /\ cout' = [kind |-> IF cargs.mode = "all" THEN "jsonlist" ELSE "json",
                results |-> cresults]
    /\ cexit' = exitCodeOf(cargs)
    /\ cpc' = "exited"
    /\ UNCHANGED <<cargs, ctimeout, probes, cresults, now>>
    /\ UNCHANGED nonConnVars

\* wg.Wait(); json.Marshal; fmt.Println; return
CM_Print ==
    /\ cpc = "running"
    /\ \A i \in Probes : probes[i].pc = "appended"
    /\ cout' = [kind |-> IF cargs.mode = "all" THEN "jsonlist" ELSE "json",
                results |-> cresults]
    /\ cexit' = exitCodeOf(cargs)
    /\ cpc' = "exited"
    /\ UNCHANGED <<cargs, ctimeout, probes, cresults, now>>
    /\ UNCHANGED nonConnVars

----------------------------------------------------------------------------
\* Connectivity claims

\* C8: every probe (ping, tcp, udp) hands back its result no later than
\* timeout seconds after it started, and no probe is still in flight later
\* than that.
C8_ProbeWithinTimeout ==
    \A i \in Probes :
        /\ probes[i].pc = "inflight" => now - probes[i].start <= ctimeout
        /\ probes[i].pc = "done" => probes[i].elapsed <= ctimeout

C8_Witness ==
    /\ cargs.mode = "ping" /\ cpc = "running" /\ ctimeout = 2
    /\ probes[1].pc = "done" /\ probes[1].elapsed = 2
    /\ probes[1].result.Success = FALSE

\* the positional arguments are missing or malformed
IsPortWord(w) == IsPort(w)
ArgsMissing(a) == a.argc < 3
ArgsMalformed(a) ==
    /\ a.argc >= 3
    /\ \/ a.mode \notin {"ping", "tcp", "udp", "all"}
       \/ a.argc >= 4 /\ a.mode \in {"tcp", "udp"} /\ ~IsPortWord(a.port)
       \/ a.argc >= 4 /\ a.mode = "all"
            /\ \E w \in Range(Split(a.port, ",")) : ~IsPortWord(w)
       \/ a.argc >= 5 /\ ~IsNumeral(a.timeout)

EveryFailureIsData ==
    cexit = 0 =>
        /\ cout.kind \in {"json", "jsonlist"}
        /\ cout.kind = "json" => Len(cout.results) = 1
        /\ \A k \in 1..Len(cout.results) : cout.results[k].Message # ""

RequestedPorts == portsOf(cargs)

TcpResultsFor(p) == {k \in 1..Len(cout.results) :
                        cout.results[k].Mode = "tcp" /\ cout.results[k].Port = p}

C22_AllReturnsOnePerProbe ==
    (cpc = "exited" /\ cargs.argc >= 3 /\ cargs.mode = "all") =>
        /\ Len(cout.results) = 1 + Len(RequestedPorts)
        /\ Cardinality({k \in 1..Len(cout.results) :
                            cout.results[k].Mode = "ping"}) = 1
        /\ \A p \in Range(RequestedPorts) :
              Cardinality(TcpResultsFor(p))
                 = Cardinality({k \in 1..Len(RequestedPorts) : RequestedPorts[k] = p})
        /\ \A i \in Probes : probes[i].pc = "appended"

C22_Witness ==
    /\ cpc = "exited" /\ cargs.mode = "all"
    /\ Len(cout.results) = 4
    /\ cout.results[1].Mode = "tcp" /\ cout.results[1].Port = 443
    /\ cout.results[4].Mode = "ping"

----------------------------------------------------------------------------
\* net-grab: what main, scanNetwork and the display functions write to
\* standard output.  A line is recorded by its kind.

MaxOutHosts == 2            \* hosts of the swept block
MaxProgressLines == 2       \* progress lines displayProgress writes

\* The kinds that are human-readable text; "json" is the encoded result.
HumanKinds == {"usage", "banner", "start", "progress", "portprogress", "host",
               "complete", "summary", "detail"}

AppendAll(out, kinds) == out \o kinds

OutInit ==
    /\ oprog \in {"netgrab", "netgrab_v1"}
    /\ oflags \in [v : BOOLEAN, live : BOOLEAN, json : BOOLEAN]
    /\ oinput \in [args : BOOLEAN, spec : BOOLEAN, cidr : BOOLEAN,
                   large : BOOLEAN]
    /\ ototal \in 1..MaxOutHosts
    /\ oscanned = 0 /\ oprogress = "none" /\ opc = "start"
    /\ stdout = <<>> /\ oexit = -1

\* s.liveDisplay: the earlier main switches -live on when -v is given
liveDisplay ==
    IF oprog = "netgrab_v1" THEN oflags.live \/ oflags.v ELSE oflags.live

\* main up to the worker loop of scanNetwork: usage, banner, parsePortSpec,
\* net.ParseCIDR, the start line and the start of displayProgress
O_Main ==
    /\ opc = "start"
    /\ IF ~oinput.args
       THEN /\ stdout' = AppendAll(stdout, <<"usage">>)
            /\ oexit' = 1 /\ opc' = "exited"
            /\ UNCHANGED oprogress
       ELSE LET out1 == IF oprog = "netgrab"
                        THEN AppendAll(stdout, <<"banner">>) ELSE stdout
            IN  IF (oprog = "netgrab" /\ ~oinput.spec) \/ ~oinput.cidr
                THEN /\ stdout' = out1
                     /\ oexit' = 1 /\ opc' = "exited"
                     /\ UNCHANGED oprogress
                ELSE /\ stdout' = IF liveDisplay
                                  THEN AppendAll(out1, <<"start">>) ELSE out1
                     /\ oprogress' = IF liveDisplay THEN "running" ELSE "none"
                     /\ opc' = "scan"
                     /\ UNCHANGED oexit
    /\ UNCHANGED <<oprog, oflags, oinput, ototal, oscanned>>
    /\ UNCHANGED nonOutVars

\* displayProgress: one turn of its loop
O_Progress ==
    /\ oprogress = "running"
    /\ IF oscanned >= ototal
       THEN /\ oprogress' = "stopped"
            /\ UNCHANGED stdout
       ELSE /\ Cardinality({k \in 1..Len(stdout) : stdout[k] = "progress"})
                 < MaxProgressLines
            /\ stdout' = AppendAll(stdout, <<"progress">>)
            /\ UNCHANGED oprogress
    /\ UNCHANGED <<oprog, oflags, oinput, ototal, oscanned, opc, oexit>>
    /\ UNCHANGED nonOutVars

\* one worker of scanNetwork: scanHost (scanPorts writes its own progress line
\* for a list above 1000 ports), displayHostResult, the counter
O_Host ==
    /\ opc = "scan" /\ oscanned < ototal
    /\ \E reachable \in BOOLEAN :
          LET out1 == IF oprog = "netgrab" /\ reachable /\ oinput.large
                      THEN AppendAll(stdout, <<"portprogress">>) ELSE stdout
          IN  stdout' = IF liveDisplay THEN AppendAll(out1, <<"host">>) ELSE out1
    /\ oscanned' = oscanned + 1
    /\ UNCHANGED <<oprog, oflags, oinput, ototal, oprogress, opc, oexit>>
    /\ UNCHANGED nonOutVars

\* scanNetwork after wg.Wait() and the rest of main
O_Finish ==
    /\ opc = "scan" /\ oscanned = ototal
    /\ LET out1 == IF liveDisplay
                   THEN AppendAll(stdout, <<"complete">>) ELSE stdout
       IN  stdout' =
             IF oprog = "netgrab"
             THEN AppendAll(out1, <<"summary">>
                      \o (IF oflags.json THEN <<"json">>
                          ELSE [k \in 1..(ototal + 1) |-> "detail"]))
             ELSE IF ~liveDisplay \/ oflags.json
                  THEN AppendAll(out1, <<"json">>) ELSE out1
    /\ oexit' = 0 /\ opc' = "exited"
    /\ UNCHANGED <<oprog, oflags, oinput, ototal, oscanned, oprogress>>
    /\ UNCHANGED nonOutVars

\* C13 (as claimed): a run that writes the JSON result to standard output
\* writes no human-readable line to it.
C13_JsonExcludesHumanOutput ==
    ("json" \in Range(stdout)) => (Range(stdout) \cap HumanKinds = {})

----------------------------------------------------------------------------
\* Host sweep against the clock: one worker of scanNetwork running scanHost.
\* An external operation either completes by itself at some time or, when it
\* is in hhang, never does; the clock runs on while an operation is in flight.

HostTimeout == 1            \* seconds; stands for s.timeout (2 s)
MaxHostClock == 5           \* seconds the clock of a worker runs

ExternalOps == {"ping", "dns", "dial"}

HostInit ==
    /\ hhang \in SUBSET ExternalOps
    /\ hpc = "ping" /\ hnow = 0 /\ hstart = 0
    /\ hinfo = [IsReachable |-> FALSE, OpenPorts |-> <<>>]
    /\ hslot = TRUE

\* detailedPing: cmd := exec.Command("ping", ...); cmd.CombinedOutput()
\* returns when the subprocess ends; nothing else ends the wait
H_Ping ==
    /\ hpc = "ping" /\ "ping" \notin hhang
    /\ \E t \in PingTranscripts :
          hinfo' = [hinfo EXCEPT
                       !.IsReachable = detailedPing(t).PacketsReceived > 0]
    /\ hpc' = "dns"
    /\ hstart' = hnow
    /\ UNCHANGED <<hhang, hnow, hslot>>
    /\ UNCHANGED nonHostVars

\* net.LookupAddr(ip) returns when the resolver answers or gives up; then
\* scanPorts is entered for a reachable host
H_DNS ==
    /\ hpc = "dns" /\ "dns" \notin hhang
    /\ hpc' = IF hinfo.IsReachable THEN "dial" ELSE "append"
    /\ hstart' = hnow
    /\ UNCHANGED <<hhang, hnow, hinfo, hslot>>
    /\ UNCHANGED nonHostVars

\* scanPorts: net.DialTimeout("tcp", address, s.timeout) answers
H_Dial ==
    /\ hpc = "dial" /\ "dial" \notin hhang
    /\ \E open \in scanPortsResults :
          hinfo' = [hinfo EXCEPT !.OpenPorts = open]
    /\ hpc' = "append"
    /\ UNCHANGED <<hhang, hnow, hstart, hslot>>
    /\ UNCHANGED nonHostVars

\* scanPorts: net.DialTimeout gives up when s.timeout has passed
H_DialTimeout ==
    /\ hpc = "dial" /\ hnow - hstart >= HostTimeout
    /\ hpc' = "append"
    /\ UNCHANGED <<hhang, hnow, hstart, hinfo, hslot>>
    /\ UNCHANGED nonHostVars

\* the worker after scanHost: append under s.mu, display, counter, and the
\* deferred <-sem and wg.Done()
H_Return ==
    /\ hpc = "append"
    /\ hpc' = "done"
    /\ hslot' = FALSE
    /\ UNCHANGED <<hhang, hnow, hstart, hinfo>>
    /\ UNCHANGED nonHostVars

\* a second passes; an operation that completes by itself has done so within
\* HostTimeout, and a dial whose timeout has passed gives up first
H_Tick ==
    /\ hpc \in ExternalOps
    /\ hnow < MaxHostClock
    /\ hpc \notin hhang => hnow - hstart < HostTimeout
    /\ ~(hpc = "dial" /\ hnow - hstart >= HostTimeout)
    /\ hnow' = hnow + 1
    /\ UNCHANGED <<hhang, hpc, hstart, hinfo, hslot>>
    /\ UNCHANGED nonHostVars

\* C14 (as claimed): no external operation of scanHost stays in flight beyond
\* its deadline, so the worker gives its slot back within the sum of the
\* deadlines of the ping, the lookup and the dial.
C14_ScanHostBoundedByDeadlines ==
    /\ hpc \in ExternalOps => hnow - hstart <= HostTimeout
    /\ hslot => hnow <= 3 * HostTimeout

----------------------------------------------------------------------------
\* traceroute on several targets: traceMultipleTargets against the clock.
\* A target's traceroute either ends by itself at some time or, when it is in
\* mhang, only when the context it runs under is done.

MaxTargets == 3             \* targets of one invocation
MaxMultiTimeout == 2        \* seconds; largest timeout argument

\* the context made by context.WithTimeout in traceMultipleTargets
TopCtx(deadline) == [name |-> "top", deadline |-> deadline]
NoCtx == [name |-> "none", deadline |-> 0]

NewTarget == [pc |-> "idle", ctx |-> NoCtx, ended |-> "", Success |-> FALSE]

MultiInit ==
    /\ mtimeout \in 1..MaxMultiTimeout
    /\ \E n \in 2..MaxTargets :
          /\ mtask = [i \in 1..n |-> NewTarget]
          /\ mhang \in SUBSET (1..n)
    /\ mnow = 0 /\ mtop = NoCtx /\ mtpc = "start"
    /\ mresult = NoResult

Targets == 1..Len(mtask)

\* ctx, cancel := context.WithTimeout(context.Background(), timeout);
\* for i, target := range targets { wg.Add(1); go func(...) {
\*     result, _ := runTraceroute(ctx, ip, maxHops, useNumeric) ... } }
M_Start ==
    /\ mtpc = "start"
    /\ mtop' = TopCtx(mnow + mtimeout)
    /\ mtask' = [i \in Targets |->
                    [mtask[i] EXCEPT !.pc = "running",
                                     !.ctx = TopCtx(mnow + mtimeout)]]
    /\ mtpc' = "wait"
    /\ UNCHANGED <<mtimeout, mhang, mnow, mresult>>
    /\ UNCHANGED nonMultiVars

\* runTraceroute: the traceroute command of target i ends by itself
M_Finish(i) ==
    /\ mtask[i].pc = "running" /\ i \notin mhang
    /\ \E ok \in BOOLEAN :
          mtask' = [mtask EXCEPT ![i].pc = "done", ![i].ended = "exit",
                                 ![i].Success = ok]
    /\ UNCHANGED <<mtimeout, mhang, mnow, mtop, mtpc, mresult>>
    /\ UNCHANGED nonMultiVars

\* exec.CommandContext: the command of target i is killed when its context
\* is done; runTraceroute returns what the output held, with an error
M_Cancel(i) ==
    /\ mtask[i].pc = "running"
    /\ mnow >= mtask[i].ctx.deadline
    /\ \E ok \in BOOLEAN :
          mtask' = [mtask EXCEPT ![i].pc = "done",
                                 ![i].ended = mtask[i].ctx.name,
                                 ![i].Success = ok]
    /\ UNCHANGED <<mtimeout, mhang, mnow, mtop, mtpc, mresult>>
    /\ UNCHANGED nonMultiVars

\* a second passes; a command whose context is done is killed first
M_Tick ==
    /\ mtpc = "wait"
    /\ \E i \in Targets : mtask[i].pc = "running"
    /\ \A i \in Targets :
          mtask[i].pc = "running" => mnow < mtask[i].ctx.deadline
    /\ mnow' = mnow + 1
    /\ UNCHANGED <<mtimeout, mhang, mtask, mtop, mtpc, mresult>>
    /\ UNCHANGED nonMultiVars

\* wg.Wait(); the counts of successful and failed traces; return
M_Return ==
    /\ mtpc = "wait"
    /\ \A i \in Targets : mtask[i].pc = "done"
    /\ mresult' = [Successful |-> Cardinality({i \in Targets : mtask[i].Success}),
                   Failed |-> Cardinality({i \in Targets : ~mtask[i].Success}),
                   TotalTime |-> mnow]
    /\ mtpc' = "returned"
    /\ UNCHANGED <<mtimeout, mhang, mtask, mnow, mtop>>
    /\ UNCHANGED nonMultiVars

\* C15 (as claimed): every target runs under a context of its own, not under
\* the top-level context of the invocation, and a target that hangs is ended
\* by the deadline of its own context, not by the top-level deadline.
C15_OwnSubTimeoutPerTarget ==
    \A i \in Targets :
        /\ mtask[i].pc = "running" =>
              /\ mtask[i].ctx # mtop
              /\ \A j \in Targets \ {i} :
                    mtask[j].pc = "running" => mtask[j].ctx.name # mtask[i].ctx.name
        /\ mtask[i].pc = "done" => mtask[i].ended # "top"

----------------------------------------------------------------------------
\* traceroute: runTraceroute as a whole.  An address is recorded by its last
\* byte, as in the hop lines above; the target is one of the hop addresses or
\* an address beyond them.

FarTarget == 9              \* last byte of a target no hop line shows

\* the lines traceroute prints with (-n) and without the numeric flag
NumericLine(line) == \A j \in 1..Len(line) : line[j].k \notin {"name", "pip"}
HostLine(line) == \A j \in 1..Len(line) : line[j].k # "ip"

RunTranscripts(numeric) ==
    {t \in Transcripts(MaxHopLines) :
        \A k \in 2..Len(t) : IF numeric THEN NumericLine(t[k]) ELSE HostLine(t[k])}

RunInit ==
    /\ ros \in {"linux", "darwin"}
    /\ rnumeric \in BOOLEAN
    /\ routput \in RunTranscripts(rnumeric)
    /\ rtarget \in (1..MaxHopLines) \cup {FarTarget}
    /\ rmaxHops \in 1..(MaxHopLines + 1)
    /\ Len(routput) - 1 <= rmaxHops
    /\ rcmdErr \in BOOLEAN
    /\ rpc = "start"
    /\ rresult = NoResult

\* runTraceroute after cmd.CombinedOutput(): the result for the output and
\* the error of the command
runTraceroute(os, output, cmdErr, targetIP, maxHops) ==
    LET hops == parseTracerouteOutput(os, output)
    IN  IF cmdErr
        THEN [Hops |-> hops, TotalHops |-> Len(hops),
              Success |-> Len(hops) > 0 /\ Len(hops) < maxHops,
              Error |-> "Traceroute error: %v"]
        ELSE [Hops |-> hops, TotalHops |-> Len(hops),
              Success |-> /\ Len(hops) > 0
                          /\ \/ hops[Len(hops)].Address = targetIP
                             \/ ~hops[Len(hops)].TimedOut,
              Error |-> ""]

\* runTraceroute: the command has ended
Run_Traceroute ==
    /\ rpc = "start"
    /\ rresult' = runTraceroute(ros, routput, rcmdErr, rtarget, rmaxHops)
    /\ rpc' = "returned"
    /\ UNCHANGED <<ros, rnumeric, routput, rtarget, rmaxHops, rcmdErr>>
    /\ UNCHANGED nonRunVars

\* main, single target: the result is printed as JSON
Run_Print ==
    /\ rpc = "returned"
    /\ rpc' = "printed"
    /\ UNCHANGED <<ros, rnumeric, routput, rtarget, rmaxHops, rcmdErr, rresult>>
    /\ UNCHANGED nonRunVars

\* C16 (as claimed): after a failed command the result holds every hop the
\* parser finds in the output, and it carries an error string only when its
\* hop list is empty.
C16_ErrorOnlyWithoutHops ==
    (rpc # "start" /\ rcmdErr) =>
        /\ rresult.Hops = parseTracerouteOutput(ros, routput)
        /\ Len(rresult.Hops) > 0 => rresult.Error = ""

\* C17 (as claimed): success is true exactly when the hop list is not empty
\* and the last hop has the target's address or did not time out, after a
\* command that ended normally and after one that failed.
C17_SuccessIsLastHopHeuristic ==
    rpc # "start" =>
        (rresult.Success <=>
            /\ Len(rresult.Hops) > 0
            /\ \/ rresult.Hops[Len(rresult.Hops)].Address = rtarget
               \/ ~rresult.Hops[Len(rresult.Hops)].TimedOut)

\* C18 (as claimed): a numeric traceroute whose output is the single line of
\* hop 1 with the target's bare address and three RTT samples gives exactly
\* one hop, with index 1 and the target's address, and success.
C18_NumericSingleHopReachesTarget ==
    (rpc # "start" /\ rnumeric /\ ~rcmdErr /\ rtarget = 1
        /\ routput = <<HeaderLine, FullNumeric(1)>>) =>
        /\ Len(rresult.Hops) = 1
        /\ rresult.Hops[1].HopNumber = 1
        /\ rresult.Hops[1].Address = rtarget
        /\ rresult.Success

----------------------------------------------------------------------------
\* network-tools.js: executeNetworkTool.  Standard output is a sequence of
\* pieces: a complete JSON document ("ok": success true, "fail": success
\* false, "err": an error object), white space ("nl"), human-readable text
\* ("text") or a JSON document cut short ("cut").

MaxStdoutPieces == 3        \* pieces of the tool's standard output

JsonDocs == {"ok", "fail", "err"}
StdoutPieces == JsonDocs \cup {"nl", "text", "cut"}

RECURSIVE SkipSpace(_)
SkipSpace(s) ==
    IF s # <<>> /\ Head(s) = "nl" THEN SkipSpace(Tail(s)) ELSE s

\* JSON.parse(stdout): white space, one value, white space, end of input;
\* anything else throws
JSONparse(s) ==
    LET a == SkipSpace(s)
    IN  IF a = <<>> \/ Head(a) \notin JsonDocs
        THEN [threw |-> TRUE, value |-> ""]
        ELSE IF SkipSpace(Tail(a)) # <<>>
        THEN [threw |-> TRUE, value |-> ""]
        ELSE [threw |-> FALSE, value |-> Head(a)]

JsInit ==
    /\ jstdout \in SeqsUpTo(StdoutPieces, MaxStdoutPieces)
    /\ jerror \in BOOLEAN
    /\ jpc = "start"
    /\ jcalls = <<>>

\* the callback rejecting when execFile reports an error (mutant)
executeNetworkTool_RejectOnError(error, out) ==
    IF error THEN [call |-> "reject", value |-> ""]
    ELSE IF JSONparse(out).threw THEN [call |-> "reject", value |-> ""]
    ELSE [call |-> "resolve", value |-> JSONparse(out).value]

\* the callback of execFile: try { resolve(JSON.parse(stdout)) }
\* catch (e) { reject(...) }; `error` is not looked at
executeNetworkTool(error, out) ==
    IF JSONparse(out).threw THEN [call |-> "reject", value |-> ""]
    ELSE [call |-> "resolve", value |-> JSONparse(out).value]

\* new Promise(...): execFile(toolPath, args, callback) starts the tool
J_Exec ==
    /\ jpc = "start"
    /\ jpc' = "running"
    /\ UNCHANGED <<jstdout, jerror, jcalls>>
    /\ UNCHANGED nonJsVars

\* the tool has ended (or could not be started): the callback runs
J_Callback ==
    /\ jpc = "running"
    /\ jcalls' = Append(jcalls, executeNetworkTool(jerror, jstdout))
    /\ jpc' = "settled"
    /\ UNCHANGED <<jstdout, jerror>>
    /\ UNCHANGED nonJsVars

\* standard output is one JSON document, white space aside
IsOneJsonDocument(s) ==
    /\ Cardinality({k \in 1..Len(s) : s[k] # "nl"}) = 1
    /\ \E k \in 1..Len(s) : s[k] \in JsonDocs

TheDocument(s) == s[CHOOSE k \in 1..Len(s) : s[k] \in JsonDocs]

\* C19: the promise is settled by exactly one call, made when the tool has
\* ended: resolve with the parsed document when standard output is one JSON
\* document, whatever the document says and whatever execFile reports as
\* error, and reject otherwise.
C19_SettlesOnceOnParse ==
    /\ jpc # "settled" => jcalls = <<>>
    /\ jpc = "settled" =>
          /\ Len(jcalls) = 1
          /\ IsOneJsonDocument(jstdout) =>
                jcalls[1] = [call |-> "resolve", value |-> TheDocument(jstdout)]
          /\ ~IsOneJsonDocument(jstdout) => jcalls[1].call = "reject"

C19_Witness ==
    /\ jpc = "settled" /\ jerror
    /\ jstdout = <<"fail", "nl">>
    /\ jcalls = <<[call |-> "resolve", value |-> "fail"]>>

-----------------------------------------------------------------------------
\* The callers of connectivity: testConnectivity of network-tools.js and the
\* connectivity command of the CLI build the positional arguments, and main of
\* connectivity.go reads them by position

Callers == {"testConnectivity", "cli"}
CallModes == {"ping", "tcp", "udp", "all"}
CallPorts == {22, 443, 8080}
CallTimeouts == {1, 2, DefaultTimeout}

\* the options of one call: mode, port and timeout
CallOptions == [mode : CallModes, port : CallPorts, timeout : CallTimeouts]

CallInit ==
    /\ kcaller \in Callers
    /\ kopts \in CallOptions
    /\ kargv = <<>> /\ kpc = "call" /\ kseen = NoResult

\* the modes for which the caller pushes the port before the timeout
sendsPort(caller, mode) ==
    IF caller = "testConnectivity" THEN mode = "tcp" ELSE mode \in {"tcp", "udp"}

\* args = [target, mode], then the port for some modes, then the timeout
callerArgs(caller, o) ==
    <<"target", o.mode>>
        \o (IF sendsPort(caller, o.mode) THEN <<Itoa(o.port)>> ELSE <<>>)
        \o <<Itoa(o.timeout)>>

\* os.Args of the executable started with args: os.Args[0] is the program
osArgs(args) ==
    [argc |-> Len(args) + 1,
     mode |-> args[2],
     port |-> IF Len(args) >= 3 THEN args[3] ELSE <<>>,
     timeout |-> IF Len(args) >= 4 THEN args[4] ELSE <<>>]

\* the ports of the tcp and udp probes main starts, in order
portsProbed(a) ==
    LET ps == SelectSeq(probesOf(a), LAMBDA p : p.mode # "ping")
    IN  [k \in 1..Len(ps) |-> ps[k].port]

\* the caller builds the argument vector and starts the executable
K_Build ==
    /\ kpc = "call"
    /\ kargv' = callerArgs(kcaller, kopts)
    /\ kpc' = "exec"
    /\ UNCHANGED <<kcaller, kopts, kseen>>
    /\ UNCHANGED nonCallVars

\* main of connectivity.go settles the timeout and the ports from os.Args
K_Main ==
    /\ kpc = "exec"
    /\ kseen' = [timeout |-> timeoutOf(osArgs(kargv)),
                 ports |-> portsProbed(osArgs(kargv))]
    /\ kpc' = "done"
    /\ UNCHANGED <<kcaller, kopts, kargv>>
    /\ UNCHANGED nonCallVars

\* the ports main probes when os.Args carries no port
defaultPorts(mode) ==
    IF mode = "all" THEN <<22, 80, 443>>
    ELSE IF mode = "tcp" THEN <<80>>
    ELSE IF mode = "udp" THEN <<53>>
    ELSE <<>>

\* C20: for every mode and both callers, the timeout the executable applies is
\* the timeout the caller sent, and the ports it probes are the port the caller
\* sent or, when the caller sent none, the default ports of the mode
C20_ArgumentsKeepMeaning ==
    kpc = "done" =>
        /\ kseen.timeout = kopts.timeout
        /\ kseen.ports = IF sendsPort(kcaller, kopts.mode) THEN <<kopts.port>>
                         ELSE defaultPorts(kopts.mode)

-----------------------------------------------------------------------------
\* ping statistics: Scanner.detailedPing, parsePingOutput,
\* calculateLatencyStats and calculateJitter of the sweep, and checkPing of
\* connectivity.  The output of the ping subprocess is a sequence of lines; a
\* line is recorded by what the patterns of parsePingOutput can see of it.
\* A float64 is recorded as the exact fraction [n, d] in lowest terms.

MaxDups == 1                \* duplicate replies (DUP!) of a ping run
ProbePingCount == 3

RECURSIVE GCD(_, _)
GCD(a, b) == IF b = 0 THEN a ELSE GCD(b, a % b)

Abs(x) == IF x < 0 THEN 0 - x ELSE x

Rat(n, d) ==
    LET g == GCD(Abs(n), d)
    IN  IF n = 0 THEN [n |-> 0, d |-> 1] ELSE [n |-> n \div g, d |-> d \div g]

RatInt(x) == Rat(x, 1)
RatZero == RatInt(0)
RatLess(a, b) == a.n * b.d < b.n * a.d

\* round-trip times of the replies, in milliseconds
RttValues == {1, 4}
\* the mdev / stddev figure ping prints on its last line
MdevValues == {0, 2}

RECURSIVE SumSeq(_)
SumSeq(s) == IF s = <<>> THEN 0 ELSE Head(s) + SumSeq(Tail(s))

\* A run of the ping utility: the style of its output, the round-trip times
\* of the replies in the order printed (duplicates included), how many of
\* them are duplicates, the figure of the last line, whether the output ends
\* before the statistics (the subprocess was killed), and the exit status.
\* A run that exits 0 got a reply and printed its statistics.
PingRuns(count) ==
    { r \in [style : {"linux", "darwin"},
             rtts : SeqsUpTo(RttValues, count + MaxDups),
             dups : 0..MaxDups,
             mdev : MdevValues,
             cut : BOOLEAN,
             exitOk : BOOLEAN] :
        /\ r.dups < Len(r.rtts) \/ (r.dups = 0 /\ r.rtts = <<>>)
        /\ Len(r.rtts) - r.dups <= count
        /\ r.exitOk => (Len(r.rtts) > 0 /\ ~r.cut)
        /\ (r.rtts = <<>> \/ r.cut) => r.mdev = 0 }

\* "64 bytes from h: icmp_seq=1 ttl=64 time=4 ms", with " (DUP!)" or without
ReplyLine(rtt) == [kind |-> "reply", time |-> RatInt(rtt)]

\* the packet statistics line.  iputils prints
\* "4 packets transmitted, 4 received, 0% packet loss, time 3004ms" and puts
\* "+1 duplicates, " or "+1 errors, " before the loss when there are any;
\* the BSD ping prints "4 packets transmitted, 4 packets received, ..."
PacketsLine(run, count) ==
    LET rx == Len(run.rtts) - run.dups
    IN  [kind |-> "packets",
         form |-> IF run.style = "darwin" THEN "packets received"
                  ELSE IF run.dups > 0 THEN "received, +duplicates"
                  ELSE "received",
         tx |-> count, rx |-> rx, loss |-> Rat((count - rx) * 100, count)]

\* "rtt min/avg/max/mdev = 1.0/2.5/4.0/1.5 ms" (iputils) or
\* "round-trip min/avg/max/stddev = ..." (BSD); the average has 3 decimals
LatencyLine(run) ==
    [kind |-> "latency",
     form |-> IF run.style = "darwin" THEN "stddev" ELSE "mdev",
     min |-> RatInt(Min(Range(run.rtts))),
     avg |-> Rat((SumSeq(run.rtts) * 1000) \div Len(run.rtts), 1000),
     max |-> RatInt(0 - Min({0 - x : x \in Range(run.rtts)})),
     mdev |-> RatInt(run.mdev)]

\* the combined output of the run, line by line
PingOutput(run, count) ==
    <<[kind |-> "header"]>>
        \o [k \in 1..Len(run.rtts) |-> ReplyLine(run.rtts[k])]
        \o (IF run.cut THEN <<>> ELSE <<PacketsLine(run, count)>>)
        \o (IF run.cut \/ run.rtts = <<>> THEN <<>> ELSE <<LatencyLine(run)>>)

NewPingStats(count) ==
    [PacketsSent |-> count, PacketsReceived |-> 0, PacketLoss |-> RatZero,
     MinLatency |-> RatZero, MaxLatency |-> RatZero, AvgLatency |-> RatZero,
     Jitter |-> RatZero, ErrorMessage |-> "", latencies |-> <<>>]

\* `(\d+) packets transmitted, (\d+) received, ([\d.]+)% packet loss`
packetStatsMatches(output) ==
    SelectSeq(output, LAMBDA l : l.kind = "packets" /\ l.form = "received")

\* `min/avg/max/mdev = ([\d.]+)/([\d.]+)/([\d.]+)/([\d.]+) ms`
latencyStatsMatches(output) ==
    SelectSeq(output, LAMBDA l : l.kind = "latency" /\ l.form = "mdev")

\* `time=([\d.]+) ms`, line by line
pingLineLatencies(output) ==
    LET hit == SelectSeq(output, LAMBDA l : l.kind = "reply")
    IN  [k \in 1..Len(hit) |-> hit[k].time]

RECURSIVE RatSum(_)
RatSum(s) ==
    IF s = <<>> THEN RatZero
    ELSE LET t == RatSum(Tail(s))
         IN  Rat(Head(s).n * t.d + t.n * Head(s).d, Head(s).d * t.d)

RatDivInt(a, k) == Rat(a.n, a.d * k)

RatAbsDiff(a, b) == Rat(Abs(a.n * b.d - b.n * a.d), a.d * b.d)

RECURSIVE RatMinOf(_)
RatMinOf(s) ==
    IF Len(s) = 1 THEN s[1]
    ELSE LET m == RatMinOf(Tail(s)) IN IF RatLess(m, Head(s)) THEN m ELSE Head(s)

RECURSIVE RatMaxOf(_)
RatMaxOf(s) ==
    IF Len(s) = 1 THEN s[1]
    ELSE LET m == RatMaxOf(Tail(s)) IN IF RatLess(Head(s), m) THEN m ELSE Head(s)

calculateLatencyStats(latencies, stats) ==
    IF latencies = <<>> THEN stats
    ELSE [stats EXCEPT !.MinLatency = RatMinOf(latencies),
                       !.MaxLatency = RatMaxOf(latencies),
                       !.AvgLatency = RatDivInt(RatSum(latencies), Len(latencies))]

calculateJitter(latencies) ==
    IF Len(latencies) < 2 THEN RatZero
    ELSE RatDivInt(RatSum([i \in 1..(Len(latencies) - 1) |->
                              RatAbsDiff(latencies[i + 1], latencies[i])]),
                   Len(latencies) - 1)

parsePingOutput(output, stats) ==
    LET pm == packetStatsMatches(output)
        s1 == IF pm # <<>>
              THEN [stats EXCEPT !.PacketsSent = pm[1].tx,
                                 !.PacketsReceived = pm[1].rx,
                                 !.PacketLoss = pm[1].loss]
              ELSE stats
        lm == latencyStatsMatches(output)
        s2 == IF lm # <<>>
              THEN [s1 EXCEPT !.MinLatency = lm[1].min, !.AvgLatency = lm[1].avg,
                              !.MaxLatency = lm[1].max, !.Jitter = lm[1].mdev]
              ELSE s1
        latencies == pingLineLatencies(output)
        s3 == IF Len(latencies) > 0 /\ s2.PacketsReceived = 0
              THEN LET s == [s2 EXCEPT
                               !.PacketsReceived = Len(latencies),
                               !.PacketLoss =
                                   Rat((s2.PacketsSent - Len(latencies)) * 100,
                                       s2.PacketsSent)]
                   IN  IF s.MinLatency = RatZero /\ s.MaxLatency = RatZero
                            /\ s.AvgLatency = RatZero
                       THEN calculateLatencyStats(latencies, s)
                       ELSE s
              ELSE s2
    IN  [s3 EXCEPT !.latencies = latencies]

\* Scanner.detailedPing from cmd.CombinedOutput() on
pingStatsOf(run, count) ==
    LET stats == NewPingStats(count)
    IN  IF ~run.exitOk
        THEN parsePingOutput(PingOutput(run, count),
                             [stats EXCEPT !.ErrorMessage = "Ping failed: %s"])
        ELSE LET parsed == parsePingOutput(PingOutput(run, count), stats)
             IN  IF Len(parsed.latencies) >= 2
                 THEN [parsed EXCEPT !.Jitter = calculateJitter(parsed.latencies)]
                 ELSE parsed

\* checkPing from cmd.CombinedOutput() on.  fmt.Sscanf is given the verb %*s,
\* which Go's fmt does not know: the scan ends on it with an error and
\* packetLoss keeps its zero value
checkPing(run) ==
    IF ~run.exitOk
    THEN [Success |-> FALSE, Message |-> "Could not reach %s", PacketLoss |-> 0]
    ELSE [Success |-> TRUE, Message |-> "Successfully reached %s in %dms",
          PacketLoss |-> 0]

PingInit ==
    /\ gprog \in {"sweep", "connectivity"}
    /\ grun \in PingRuns(IF gprog = "sweep" THEN PingCount ELSE ProbePingCount)
    /\ gpc = "start" /\ gstats = NoResult /\ greach = FALSE

\* scanHost: pingStats := s.detailedPing(ip, PingOptions{Count: 4, ...})
G_DetailedPing ==
    /\ gprog = "sweep" /\ gpc = "start"
    /\ gstats' = pingStatsOf(grun, PingCount)
    /\ gpc' = "pinged"
    /\ UNCHANGED <<gprog, grun, greach>>
    /\ UNCHANGED nonPingVars

\* scanHost: info.IsReachable = pingStats.PacketsReceived > 0
G_Reachable ==
    /\ gprog = "sweep" /\ gpc = "pinged"
    /\ greach' = (gstats.PacketsReceived > 0)
    /\ gpc' = "done"
    /\ UNCHANGED <<gprog, grun, gstats>>
    /\ UNCHANGED nonPingVars

\* connectivity, mode ping: result = checkPing(targetIP, timeout)
G_CheckPing ==
    /\ gprog = "connectivity" /\ gpc = "start"
    /\ gstats' = checkPing(grun)
    /\ greach' = checkPing(grun).Success
    /\ gpc' = "done"
    /\ UNCHANGED <<gprog, grun>>
    /\ UNCHANGED nonPingVars

\* the replies of the run that are not duplicates
RepliesReceived == Len(grun.rtts) - grun.dups

\* C23: when neither statistics line of the output can be parsed and there are
\* k >= 1 round-trip samples, then for either exit status the PingStats has
\* k packets received, the loss (sent - k) / sent * 100, the minimum, average
\* and maximum of the samples, and as jitter the mean absolute difference of
\* consecutive samples.
SummaryUnparseable ==
    /\ packetStatsMatches(PingOutput(grun, PingCount)) = <<>>
    /\ latencyStatsMatches(PingOutput(grun, PingCount)) = <<>>

Samples == [k \in 1..Len(grun.rtts) |-> RatInt(grun.rtts[k])]

C23_FallbackFromSamples ==
    (gprog = "sweep" /\ gpc # "start" /\ SummaryUnparseable /\ Len(grun.rtts) >= 1) =>
        /\ gstats.PacketsReceived = Len(grun.rtts)
        /\ gstats.PacketLoss = Rat((PingCount - Len(grun.rtts)) * 100, PingCount)
        /\ gstats.MinLatency = RatMinOf(Samples)
        /\ gstats.MaxLatency = RatMaxOf(Samples)
        /\ gstats.AvgLatency = Rat(SumSeq(grun.rtts), Len(grun.rtts))
        /\ gstats.Jitter =
              IF Len(grun.rtts) < 2 THEN RatZero
              ELSE Rat(SumSeq([i \in 1..(Len(grun.rtts) - 1) |->
                                  Abs(grun.rtts[i + 1] - grun.rtts[i])]),
                       Len(grun.rtts) - 1)

C30_PingStatsInRange ==
    (gprog = "sweep" /\ gpc = "done") =>
        /\ 0 <= gstats.PacketsReceived
        /\ gstats.PacketsReceived <= gstats.PacketsSent
        /\ ~RatLess(gstats.PacketLoss, RatZero)
        /\ ~RatLess(RatInt(100), gstats.PacketLoss)
        /\ greach <=> (gstats.PacketsReceived > 0)

-----------------------------------------------------------------------------
\* CIDR expansion: the loop of scanNetwork that builds the host list,
\*   for ip := ip.Mask(ipnet.Mask); ipnet.Contains(ip); inc(ip) {...}
\* run one step at a time with the host limit of NewScanner.

MaxHosts == 256

ExpandAddrs == { <<0, 0, 0, 0>>, <<10, 0, 0, 5>>, <<10, 0, 255, 255>>,
                 <<203, 0, 113, 0>>, <<255, 255, 255, 255>> }
ExpandOnes == {0, 8, 23, 24, 25, 30, 31, 32}

\* the blocks net.ParseCIDR accepts, as the address and the prefix length
ExpandInputs == [ok : {TRUE}, ip : ExpandAddrs, ones : ExpandOnes]

ExpandInit ==
    /\ ecidr \in ExpandInputs
    /\ eip = <<>> /\ ehosts = <<>> /\ epc = "start"

\* the loop started at the address given instead of the network address
E_Start_NoMask ==
    /\ epc = "start"
    /\ eip' = ecidr.ip
    /\ epc' = "test"
    /\ UNCHANGED <<ecidr, ehosts>>
    /\ UNCHANGED nonExpandVars

\* ip := ip.Mask(ipnet.Mask)
E_Start ==
    /\ epc = "start"
    /\ eip' = Mask(ecidr.ip, ecidr.ones)
    /\ epc' = "test"
    /\ UNCHANGED <<ecidr, ehosts>>
    /\ UNCHANGED nonExpandVars

\* the loop condition ipnet.Contains(ip)
E_Test ==
    /\ epc = "test"
    /\ epc' = IF NetContains(Mask(ecidr.ip, ecidr.ones), ecidr.ones, eip)
              THEN "body" ELSE "done"
    /\ UNCHANGED <<ecidr, eip, ehosts>>
    /\ UNCHANGED nonExpandVars

\* hosts = append(hosts, ip.String()); if len(hosts) >= s.maxHosts { break }
E_Body ==
    /\ epc = "body"
    /\ ehosts' = Append(ehosts, eip)
    /\ epc' = IF Len(ehosts) + 1 >= MaxHosts THEN "done" ELSE "inc"
    /\ UNCHANGED <<ecidr, eip>>
    /\ UNCHANGED nonExpandVars

\* the post statement inc(ip)
E_Inc ==
    /\ epc = "inc"
    /\ eip' = inc(eip)
    /\ epc' = "test"
    /\ UNCHANGED <<ecidr, ehosts>>
    /\ UNCHANGED nonExpandVars

\* C25: the host list of a valid block is the block's addresses in ascending
\* order from the network address, each once, cut after the first MaxHosts;
\* and the loop ends for every block, also for one that ends at
\* 255.255.255.255, where inc wraps around, and for 0.0.0.0/0.
HostBits == 32 - ecidr.ones

\* the number of addresses of the block, or MaxHosts if it has more
ExpectedCount == IF HostBits >= 8 THEN MaxHosts ELSE Pow2(HostBits)

\* the host bits of byte j of the block
HostBitsOf(j) ==
    LET free == 8 * j - ecidr.ones
    IN  IF free < 0 THEN 0 ELSE IF free > 8 THEN 8 ELSE free

\* the lower three bytes of an address as a number
Low24(ip) == (ip[2] * 256 + ip[3]) * 256 + ip[4]

ExpansionIsBlockPrefix ==
    /\ Len(ehosts) <= MaxHosts
    /\ epc = "done" =>
          /\ Len(ehosts) = ExpectedCount
          /\ \A j \in 1..4 :
                /\ ehosts[1][j] % Pow2(HostBitsOf(j)) = 0
                /\ ehosts[1][j] = ecidr.ip[j] - (ecidr.ip[j] % Pow2(HostBitsOf(j)))
          /\ \A k \in 1..(Len(ehosts) - 1) :
                /\ ehosts[k + 1][1] = ehosts[k][1]
                /\ Low24(ehosts[k + 1]) = Low24(ehosts[k]) + 1

C25_ExpansionAscendingAndEnds ==
    []ExpansionIsBlockPrefix /\ <>(epc = "done")

C25_Witness ==
    /\ epc = "done" /\ ecidr.ones = 32 /\ ecidr.ip = <<255, 255, 255, 255>>
    /\ ehosts = << <<255, 255, 255, 255>> >>
    /\ eip = <<0, 0, 0, 0>>

-----------------------------------------------------------------------------
\* The sweep with its progress reporter: scanNetwork, its workers, the
\* goroutine running displayProgress, and the end of main.  scanHost is one
\* step of a worker here; standard output is the sequence of the kinds of
\* the lines written.

MaxLiveHosts == 2           \* hosts of the swept block

LiveInit ==
    /\ llive \in BOOLEAN
    /\ ltotal \in 1..MaxLiveHosts
    /\ lwpc = [i \in 1..ltotal |-> "idle"]
    /\ lidx = 1 /\ lsem = 0 /\ lwg = 0 /\ lmu = 0
    /\ lresults = <<>> /\ lscanned = 0
    /\ lrpc = "none" /\ lread = 0
    /\ lmpc = "start" /\ lout = <<>>

LiveWorkers == 1..ltotal

ProgressLines == Cardinality({k \in 1..Len(lout) : lout[k] = "progress"})

\* s.totalHosts = len(hosts); if s.liveDisplay { fmt.Printf("Starting scan
\* ..."); go s.displayProgress() }
SL_Start ==
    /\ lmpc = "start"
    /\ IF llive
       THEN /\ lout' = Append(lout, "start")
            /\ lrpc' = "load"
       ELSE UNCHANGED <<lout, lrpc>>
    /\ lmpc' = "loop"
    /\ UNCHANGED <<llive, ltotal, lwpc, lidx, lsem, lwg, lmu, lresults,
                   lscanned, lread>>
    /\ UNCHANGED nonLiveVars

\* for _, host := range hosts { wg.Add(1); sem <- struct{}{}; go func(...) }
SL_Spawn ==
    /\ lmpc = "loop" /\ lidx <= ltotal
    /\ lsem < SweepWorkers
    /\ lsem' = lsem + 1
    /\ lwg' = lwg + 1
    /\ lwpc' = [lwpc EXCEPT ![lidx] = "scan"]
    /\ lidx' = lidx + 1
    /\ lmpc' = IF lidx = ltotal THEN "wait" ELSE "loop"
    /\ UNCHANGED <<llive, ltotal, lmu, lresults, lscanned, lrpc, lread, lout>>
    /\ UNCHANGED nonLiveVars

\* info := s.scanHost(ip)
LW_Scan(i) ==
    /\ lwpc[i] = "scan"
    /\ lwpc' = [lwpc EXCEPT ![i] = "lock"]
    /\ UNCHANGED <<llive, ltotal, lidx, lsem, lwg, lmu, lresults, lscanned,
                   lrpc, lread, lmpc, lout>>
    /\ UNCHANGED nonLiveVars

\* s.mu.Lock()
LW_Lock(i) ==
    /\ lwpc[i] = "lock"
    /\ lmu = 0
    /\ lmu' = i
    /\ lwpc' = [lwpc EXCEPT ![i] = "append"]
    /\ UNCHANGED <<llive, ltotal, lidx, lsem, lwg, lresults, lscanned,
                   lrpc, lread, lmpc, lout>>
    /\ UNCHANGED nonLiveVars

\* s.results = append(s.results, info); s.mu.Unlock()
LW_Append(i) ==
    /\ lwpc[i] = "append"
    /\ lresults' = Append(lresults, i)
    /\ lmu' = 0
    /\ lwpc' = [lwpc EXCEPT ![i] = IF llive THEN "show" ELSE "count"]
    /\ UNCHANGED <<llive, ltotal, lidx, lsem, lwg, lscanned, lrpc, lread,
                   lmpc, lout>>
    /\ UNCHANGED nonLiveVars

\* if s.liveDisplay { s.displayHostResult(info) }
LW_Show(i) ==
    /\ lwpc[i] = "show"
    /\ lout' = Append(lout, "host")
    /\ lwpc' = [lwpc EXCEPT ![i] = "count"]
    /\ UNCHANGED <<llive, ltotal, lidx, lsem, lwg, lmu, lresults, lscanned,
                   lrpc, lread, lmpc>>
    /\ UNCHANGED nonLiveVars

\* the counter raised by two for one host
LW_Count_Twice(i) ==
    /\ lwpc[i] = "count"
    /\ lscanned' = lscanned + 2
    /\ lwpc' = [lwpc EXCEPT ![i] = "release"]
    /\ UNCHANGED <<llive, ltotal, lidx, lsem, lwg, lmu, lresults, lrpc,
                   lread, lmpc, lout>>
    /\ UNCHANGED nonLiveVars

\* atomic.AddInt32(&s.hostsScanned, 1)
LW_Count(i) ==
    /\ lwpc[i] = "count"
    /\ lscanned' = lscanned + 1
    /\ lwpc' = [lwpc EXCEPT ![i] = "release"]
    /\ UNCHANGED <<llive, ltotal, lidx, lsem, lwg, lmu, lresults, lrpc,
                   lread, lmpc, lout>>
    /\ UNCHANGED nonLiveVars

\* deferred: <-sem; wg.Done()
LW_Release(i) ==
    /\ lwpc[i] = "release"
    /\ lsem' = lsem - 1
    /\ lwg' = lwg - 1
    /\ lwpc' = [lwpc EXCEPT ![i] = "done"]
    /\ UNCHANGED <<llive, ltotal, lidx, lmu, lresults, lscanned, lrpc,
                   lread, lmpc, lout>>
    /\ UNCHANGED nonLiveVars

\* wg.Wait(); if s.liveDisplay { fmt.Printf("\nScan complete. ...") }; return
SL_Wait ==
    /\ lmpc = "wait" /\ lwg = 0
    /\ lout' = IF llive THEN Append(lout, "complete") ELSE lout
    /\ lmpc' = "returned"
    /\ UNCHANGED <<llive, ltotal, lwpc, lidx, lsem, lwg, lmu, lresults,
                   lscanned, lrpc, lread>>
    /\ UNCHANGED nonLiveVars

\* main after scanNetwork: the summary and the results, then the process ends
LM_Summary ==
    /\ lmpc = "returned"
    /\ lout' = Append(lout, "summary")
    /\ lmpc' = "exited"
    /\ UNCHANGED <<llive, ltotal, lwpc, lidx, lsem, lwg, lmu, lresults,
                   lscanned, lrpc, lread>>
    /\ UNCHANGED nonLiveVars

\* displayProgress: scanned := atomic.LoadInt32(&s.hostsScanned);
\* if scanned >= int32(s.totalHosts) { break }.  A further round is started
\* only while fewer than MaxProgressLines lines are written or to leave.
DP_Load ==
    /\ lrpc = "load" /\ lmpc # "exited"
    /\ ProgressLines < MaxProgressLines \/ lscanned >= ltotal
    /\ lread' = lscanned
    /\ lrpc' = IF lscanned >= ltotal THEN "exited" ELSE "print"
    /\ UNCHANGED <<llive, ltotal, lwpc, lidx, lsem, lwg, lmu, lresults,
                   lscanned, lmpc, lout>>
    /\ UNCHANGED nonLiveVars

\* displayProgress: fmt.Printf("\rProgress: ...", percentage, scanned, ...)
DP_Print ==
    /\ lrpc = "print" /\ lmpc # "exited"
    /\ lout' = Append(lout, "progress")
    /\ lrpc' = "sleep"
    /\ UNCHANGED <<llive, ltotal, lwpc, lidx, lsem, lwg, lmu, lresults,
                   lscanned, lread, lmpc>>
    /\ UNCHANGED nonLiveVars

\* displayProgress: time.Sleep(500 * time.Millisecond)
DP_Sleep ==
    /\ lrpc = "sleep" /\ lmpc # "exited"
    /\ lrpc' = "load"
    /\ UNCHANGED <<llive, ltotal, lwpc, lidx, lsem, lwg, lmu, lresults,
                   lscanned, lread, lmpc, lout>>
    /\ UNCHANGED nonLiveVars

LiveWorkerStep ==
    \E i \in LiveWorkers :
        \/ LW_Scan(i) \/ LW_Lock(i) \/ LW_Append(i) \/ LW_Show(i)
        \/ LW_Count(i) \/ LW_Release(i)

ReporterStep == DP_Load \/ DP_Print \/ DP_Sleep

\* C26: hostsScanned <= len(results) <= totalHosts at every moment and the
\* counter never decreases; a host has raised the counter exactly once, after
\* its HostInfo was appended; the reporter reads the counter without taking
\* the mutex of the result list; when scanNetwork returns,
\* hostsScanned = len(results) = totalHosts.
Counted(i) == lwpc[i] \in {"release", "done"}

CounterInvariant ==
    /\ lscanned <= Len(lresults) /\ Len(lresults) <= ltotal
    /\ lscanned = Cardinality({i \in LiveWorkers : Counted(i)})
    /\ \A i \in LiveWorkers :
          /\ Counted(i) => i \in Range(lresults)
          /\ Cardinality({k \in 1..Len(lresults) : lresults[k] = i}) <= 1
    /\ (lrpc = "load" /\ lmpc # "exited"
          /\ (ProgressLines < MaxProgressLines \/ lscanned >= ltotal))
          => ENABLED DP_Load
    /\ lmpc \in {"returned", "exited"} =>
          (lscanned = ltotal /\ Len(lresults) = ltotal)

C26_CounterFollowsResults ==
    /\ []CounterInvariant
    /\ [][lscanned' >= lscanned]_vars
    /\ [][ReporterStep => lmu' = lmu]_vars

C26_Witness ==
    /\ lmu # 0 /\ lrpc = "print" /\ lread = 1 /\ lscanned = 1
    /\ Len(lresults) = 1 /\ ltotal = 2

\* C29: in live mode no progress line is written after the "Scan complete"
\* line or after the summary that follows it, and a reporter that has seen
\* the counter at totalHosts has left its loop.
C29_NoProgressAfterComplete ==
    /\ \A k, j \in 1..Len(lout) :
          (k < j /\ lout[k] \in {"complete", "summary"}) => lout[j] # "progress"
    /\ (lrpc \in {"print", "sleep"}) => lread < ltotal

-----------------------------------------------------------------------------
\* portscan against the clock: the contexts of scanPortsWithRateLimit.  Time
\* is counted in seconds by the clock `dnow`; taking a slot, starting a dial
\* and handing over a result take no time.

MaxDialPorts == 4           \* longest port list
MaxDialTimeout == 2         \* largest per-port timeout, in seconds
MaxDialConc == 2            \* largest maxConcurrent
ScanGrace == 5              \* seconds added to the timeout for ctx

\* what the target does with a connection attempt: it accepts after `lat`
\* seconds, less than the per-port timeout, or it never answers
PortBehaviours(timeout) ==
    {[accepts |-> TRUE, lat |-> l] : l \in 0..(timeout - 1)}
    \cup {[accepts |-> FALSE, lat |-> 0]}

NewDialTask == [pc |-> "acquire", start |-> 0, deadline |-> 0, open |-> FALSE]

DialInit ==
    /\ dtimeout \in 1..MaxDialTimeout
    /\ dcap \in 1..MaxDialConc
    /\ \E n \in 1..MaxDialPorts :
          /\ dbeh \in [1..n -> PortBehaviours(dtimeout)]
          /\ dtask = [i \in 1..n |-> [NewDialTask EXCEPT !.pc = "idle"]]
    /\ dsem = 0 /\ dnow = 0 /\ dctx = 0 /\ dpc = "start"

DialTasks == 1..Len(dtask)

\* context.WithTimeout(parent, d) called at time `at`: the earlier of the
\* parent's deadline and at + d
withTimeout(parentDeadline, at, d) ==
    IF at + d < parentDeadline THEN at + d ELSE parentDeadline

\* ctx, cancel := context.WithTimeout(context.Background(), timeout+5s);
\* the loop that starts one goroutine per port
D_Begin ==
    /\ dpc = "start"
    /\ dctx' = dnow + dtimeout + ScanGrace
    /\ dtask' = [i \in DialTasks |-> NewDialTask]
    /\ dpc' = "running"
    /\ UNCHANGED <<dtimeout, dcap, dbeh, dsem, dnow>>
    /\ UNCHANGED nonDialVars

\* semaphore <- struct{}{}; portCtx, portCancel := context.WithTimeout(ctx,
\* timeout); the dial starts
D_Acquire(i) ==
    /\ dpc = "running" /\ dtask[i].pc = "acquire"
    /\ dsem < dcap
    /\ dsem' = dsem + 1
    /\ dtask' = [dtask EXCEPT ![i].pc = "dial", ![i].start = dnow,
                              ![i].deadline = withTimeout(dctx, dnow, dtimeout)]
    /\ UNCHANGED <<dtimeout, dcap, dbeh, dnow, dctx, dpc>>
    /\ UNCHANGED nonDialVars

\* dialer.DialContext returns a connection: the target accepted before the
\* deadline of portCtx
D_Connect(i) ==
    /\ dpc = "running" /\ dtask[i].pc = "dial"
    /\ dbeh[i].accepts
    /\ dnow = dtask[i].start + dbeh[i].lat
    /\ dnow < dtask[i].deadline
    /\ dtask' = [dtask EXCEPT ![i].pc = "send", ![i].open = TRUE]
    /\ UNCHANGED <<dtimeout, dcap, dbeh, dsem, dnow, dctx, dpc>>
    /\ UNCHANGED nonDialVars

\* dialer.DialContext returns an error: portCtx has expired
D_Expire(i) ==
    /\ dpc = "running" /\ dtask[i].pc = "dial"
    /\ dnow >= dtask[i].deadline
    /\ dtask' = [dtask EXCEPT ![i].pc = "send", ![i].open = FALSE]
    /\ UNCHANGED <<dtimeout, dcap, dbeh, dsem, dnow, dctx, dpc>>
    /\ UNCHANGED nonDialVars

\* resultChan <- result; deferred: portCancel(); <-semaphore; wg.Done()
D_Release(i) ==
    /\ dpc = "running" /\ dtask[i].pc = "send"
    /\ dsem' = dsem - 1
    /\ dtask' = [dtask EXCEPT ![i].pc = "done"]
    /\ UNCHANGED <<dtimeout, dcap, dbeh, dnow, dctx, dpc>>
    /\ UNCHANGED nonDialVars

\* a second passes: no task is at a step that takes no time, and no dial is
\* at the moment it ends
D_Tick ==
    /\ dpc = "running"
    /\ \E i \in DialTasks : dtask[i].pc = "dial"
    /\ \A i \in DialTasks :
          /\ dtask[i].pc # "send"
          /\ dtask[i].pc = "acquire" => dsem >= dcap
          /\ dtask[i].pc = "dial" =>
                /\ dnow < dtask[i].deadline
                /\ dbeh[i].accepts => dnow < dtask[i].start + dbeh[i].lat
    /\ dnow' = dnow + 1
    /\ UNCHANGED <<dtimeout, dcap, dbeh, dtask, dsem, dctx, dpc>>
    /\ UNCHANGED nonDialVars

\* wg.Wait(); close(resultChan); the collecting loop ends; return
D_Return ==
    /\ dpc = "running"
    /\ \A i \in DialTasks : dtask[i].pc = "done"
    /\ dpc' = "returned"
    /\ UNCHANGED <<dtimeout, dcap, dbeh, dtask, dsem, dnow, dctx>>
    /\ UNCHANGED nonDialVars

\* C27: every dial is given the whole per-port timeout from the moment its
\* task holds a slot, and a port that accepts within the per-port timeout is
\* reported open, whatever its place in the list and the order of the tasks.
C27_FullTimeoutPerPort ==
    \A i \in DialTasks :
        /\ dtask[i].pc \in {"dial", "send", "done"} =>
              dtask[i].deadline = dtask[i].start + dtimeout
        /\ (dtask[i].pc \in {"send", "done"} /\ dbeh[i].accepts) => dtask[i].open

----------------------------------------------------------------------------
\* Specifications

OutIdle ==
    /\ oprog = "none" /\ oflags = [v |-> FALSE, live |-> FALSE, json |-> FALSE]
    /\ oinput = [args |-> FALSE, spec |-> FALSE, cidr |-> FALSE,
                 large |-> FALSE]
    /\ ototal = 0 /\ oscanned = 0 /\ oprogress = "none" /\ opc = "idle"
    /\ stdout = <<>> /\ oexit = -1

HostIdle ==
    /\ hhang = {} /\ hpc = "idle" /\ hnow = 0 /\ hstart = 0
    /\ hinfo = [IsReachable |-> FALSE, OpenPorts |-> <<>>] /\ hslot = FALSE

MultiIdle ==
    /\ mtimeout = 0 /\ mhang = {} /\ mtask = <<>> /\ mnow = 0
    /\ mtop = [name |-> "none", deadline |-> 0] /\ mtpc = "idle"
    /\ mresult = NoResult

RunIdle ==
    /\ ros = "none" /\ rnumeric = FALSE /\ routput = <<>> /\ rtarget = 0
    /\ rmaxHops = 0 /\ rcmdErr = FALSE /\ rpc = "idle" /\ rresult = NoResult

JsIdle ==
    /\ jstdout = <<>> /\ jerror = FALSE /\ jpc = "idle" /\ jcalls = <<>>

CallIdle ==
    /\ kcaller = "none" /\ kopts = NoResult /\ kargv = <<>> /\ kpc = "idle"
    /\ kseen = NoResult

PingIdle ==
    /\ gprog = "none" /\ grun = NoResult /\ gpc = "idle" /\ gstats = NoResult
    /\ greach = FALSE

ExpandIdle ==
    /\ ecidr = NoResult /\ eip = <<>> /\ ehosts = <<>> /\ epc = "idle"

LiveIdle ==
    /\ llive = FALSE /\ ltotal = 0 /\ lwpc = <<>> /\ lidx = 1 /\ lsem = 0
    /\ lwg = 0 /\ lmu = 0 /\ lresults = <<>> /\ lscanned = 0 /\ lrpc = "none"
    /\ lread = 0 /\ lmpc = "idle" /\ lout = <<>>

DialIdle ==
    /\ dtimeout = 0 /\ dcap = 0 /\ dbeh = <<>> /\ dtask = <<>> /\ dsem = 0
    /\ dnow = 0 /\ dctx = 0 /\ dpc = "idle"

SweepIdle ==
    /\ cidr = [ok |-> FALSE] /\ hosts = <<>> /\ spc = "idle" /\ sidx = 1
    /\ sem = 0 /\ swg = 0 /\ wpc = <<>> /\ info = <<>> /\ mu = 0
    /\ wtmp = <<>> /\ results = <<>> /\ hostsScanned = 0 /\ serr = "none"

InitScan == ScanInit /\ ParseIdle /\ SweepIdle /\ TraceIdle /\ ConnIdle
    /\ OutIdle /\ HostIdle /\ MultiIdle /\ RunIdle /\ JsIdle /\ CallIdle /\ PingIdle /\ ExpandIdle /\ LiveIdle /\ DialIdle

NextScan ==
    \/ PS_Main
    \/ PS_Spawn
    \/ \E i \in Tasks : PS_Acquire(i)
    \/ \E i \in Tasks : PS_Dial(i)
    \/ \E i \in Tasks : PS_Send(i)
    \/ \E i \in Tasks : PS_Release(i)
    \/ PS_Close
    \/ PS_Collect
    \/ PS_Return
    \/ SP_Spawn
    \/ \E i \in Tasks : SP_Dial(i)
    \/ \E i \in Tasks : SP_Append(i)
    \/ \E i \in Tasks : SP_Count(i)
    \/ \E i \in Tasks : SP_Release(i)
    \/ SP_Wait

SpecScan == InitScan /\ [][NextScan]_vars

\* the port numbers play no part in the synchronisation: one list per length
\* and port
InitPortscan ==
    /\ InitScan /\ prog = "portscan"
    /\ \A i \in Tasks : ports[i] = ports[1]

NextPortscan ==
    \/ PS_Main
    \/ PS_Spawn
    \/ \E i \in Tasks : PS_Acquire(i)
    \/ \E i \in Tasks : PS_Dial(i)
    \/ \E i \in Tasks : PS_Send(i)
    \/ \E i \in Tasks : PS_Release(i)
    \/ PS_Close
    \/ PS_Collect
    \/ PS_Return

\* the Go scheduler runs every goroutine that can take a step
SpecPortscan == InitPortscan /\ [][NextPortscan]_vars /\ WF_vars(NextPortscan)


InitParse == ParseInit /\ ScanIdle /\ SweepIdle /\ TraceIdle /\ ConnIdle
    /\ OutIdle /\ HostIdle /\ MultiIdle /\ RunIdle /\ JsIdle /\ CallIdle /\ PingIdle /\ ExpandIdle /\ LiveIdle /\ DialIdle

NextParse ==
    \/ Main_portscan
    \/ Main_netgrab

SpecParse == InitParse /\ [][NextParse]_vars

InitSweep == SweepInit /\ ScanIdle /\ ParseIdle /\ TraceIdle /\ ConnIdle
    /\ OutIdle /\ HostIdle /\ MultiIdle /\ RunIdle /\ JsIdle /\ CallIdle /\ PingIdle /\ ExpandIdle /\ LiveIdle /\ DialIdle

NextSweep ==
    \/ SN_Start
    \/ SN_Spawn
    \/ \E i \in Workers : W_Ping(i)
    \/ \E i \in Workers : W_DNS(i)
    \/ \E i \in Workers : W_Ports(i)
    \/ \E i \in Workers : W_Lock(i)
    \/ \E i \in Workers : W_Append(i)
    \/ \E i \in Workers : W_Count(i)
    \/ \E i \in Workers : W_Release(i)
    \/ SN_Wait

SpecSweep == InitSweep /\ [][NextSweep]_vars

InitTrace == TraceInit /\ ScanIdle /\ ParseIdle /\ SweepIdle /\ ConnIdle
    /\ OutIdle /\ HostIdle /\ MultiIdle /\ RunIdle /\ JsIdle /\ CallIdle /\ PingIdle /\ ExpandIdle /\ LiveIdle /\ DialIdle

NextTrace ==
    \/ ParseTrace

SpecTrace == InitTrace /\ [][NextTrace]_vars

InitConn == ConnInit /\ ScanIdle /\ ParseIdle /\ SweepIdle /\ TraceIdle
    /\ OutIdle /\ HostIdle /\ MultiIdle /\ RunIdle /\ JsIdle /\ CallIdle /\ PingIdle /\ ExpandIdle /\ LiveIdle /\ DialIdle

NextConn ==
    \/ CM_Start
    \/ \E i \in Probes : P_Start(i)
    \/ \E i \in Probes : P_Finish(i)
    \/ \E i \in Probes : P_Deadline(i)
    \/ Tick
    \/ \E i \in Probes : P_Append(i)
    \/ CM_Print

SpecConn == InitConn /\ [][NextConn]_vars

InitOut == OutInit /\ ScanIdle /\ ParseIdle /\ SweepIdle /\ TraceIdle
    /\ ConnIdle /\ HostIdle /\ MultiIdle /\ RunIdle /\ JsIdle /\ CallIdle /\ PingIdle /\ ExpandIdle /\ LiveIdle /\ DialIdle

NextOut ==
    \/ O_Main
    \/ O_Progress
    \/ O_Host
    \/ O_Finish

SpecOut == InitOut /\ [][NextOut]_vars

InitHost == HostInit /\ ScanIdle /\ ParseIdle /\ SweepIdle /\ TraceIdle
    /\ ConnIdle /\ OutIdle /\ MultiIdle /\ RunIdle /\ JsIdle /\ CallIdle /\ PingIdle /\ ExpandIdle /\ LiveIdle /\ DialIdle

NextHost ==
    \/ H_Ping
    \/ H_DNS
    \/ H_Dial
    \/ H_DialTimeout
    \/ H_Return
    \/ H_Tick

SpecHost == InitHost /\ [][NextHost]_vars

InitMulti == MultiInit /\ ScanIdle /\ ParseIdle /\ SweepIdle /\ TraceIdle
    /\ ConnIdle /\ OutIdle /\ HostIdle /\ RunIdle /\ JsIdle /\ CallIdle /\ PingIdle /\ ExpandIdle /\ LiveIdle /\ DialIdle

NextMulti ==
    \/ M_Start
    \/ \E i \in Targets : M_Finish(i)
    \/ \E i \in Targets : M_Cancel(i)
    \/ M_Tick
    \/ M_Return

SpecMulti == InitMulti /\ [][NextMulti]_vars

InitRun == RunInit /\ ScanIdle /\ ParseIdle /\ SweepIdle /\ TraceIdle
    /\ ConnIdle /\ OutIdle /\ HostIdle /\ MultiIdle /\ JsIdle /\ CallIdle /\ PingIdle /\ ExpandIdle /\ LiveIdle /\ DialIdle

NextRun ==
    \/ Run_Traceroute
    \/ Run_Print

SpecRun == InitRun /\ [][NextRun]_vars

InitJs == JsInit /\ ScanIdle /\ ParseIdle /\ SweepIdle /\ TraceIdle
    /\ ConnIdle /\ OutIdle /\ HostIdle /\ MultiIdle /\ RunIdle /\ CallIdle /\ PingIdle /\ ExpandIdle /\ LiveIdle /\ DialIdle

NextJs ==
    \/ J_Exec
    \/ J_Callback

SpecJs == InitJs /\ [][NextJs]_vars

InitCall == CallInit /\ ScanIdle /\ ParseIdle /\ SweepIdle /\ TraceIdle
    /\ ConnIdle /\ OutIdle /\ HostIdle /\ MultiIdle /\ RunIdle /\ JsIdle /\ PingIdle /\ ExpandIdle /\ LiveIdle /\ DialIdle

NextCall ==
    \/ K_Build
    \/ K_Main

SpecCall == InitCall /\ [][NextCall]_vars

InitPing == PingInit /\ ScanIdle /\ ParseIdle /\ SweepIdle /\ TraceIdle
    /\ ConnIdle /\ OutIdle /\ HostIdle /\ MultiIdle /\ RunIdle /\ JsIdle
    /\ CallIdle /\ ExpandIdle /\ LiveIdle /\ DialIdle

NextPing ==
    \/ G_DetailedPing
    \/ G_Reachable
    \/ G_CheckPing

SpecPing == InitPing /\ [][NextPing]_vars

InitExpand == ExpandInit /\ ScanIdle /\ ParseIdle /\ SweepIdle /\ TraceIdle
    /\ ConnIdle /\ OutIdle /\ HostIdle /\ MultiIdle /\ RunIdle /\ JsIdle
    /\ CallIdle /\ PingIdle /\ LiveIdle /\ DialIdle

NextExpand ==
    \/ E_Start
    \/ E_Test
    \/ E_Body
    \/ E_Inc

\* the loop is run by one goroutine that is never suspended for good
SpecExpand == InitExpand /\ [][NextExpand]_vars /\ WF_vars(NextExpand)

InitLive == LiveInit /\ ScanIdle /\ ParseIdle /\ SweepIdle /\ TraceIdle
    /\ ConnIdle /\ OutIdle /\ HostIdle /\ MultiIdle /\ RunIdle /\ JsIdle
    /\ CallIdle /\ PingIdle /\ ExpandIdle /\ DialIdle

NextLive ==
    \/ SL_Start
    \/ SL_Spawn
    \/ \E i \in LiveWorkers : LW_Scan(i)
    \/ \E i \in LiveWorkers : LW_Lock(i)
    \/ \E i \in LiveWorkers : LW_Append(i)
    \/ \E i \in LiveWorkers : LW_Show(i)
    \/ \E i \in LiveWorkers : LW_Count(i)
    \/ \E i \in LiveWorkers : LW_Release(i)
    \/ SL_Wait
    \/ LM_Summary
    \/ DP_Load
    \/ DP_Print
    \/ DP_Sleep

SpecLive == InitLive /\ [][NextLive]_vars

InitDial == DialInit /\ ScanIdle /\ ParseIdle /\ SweepIdle /\ TraceIdle
    /\ ConnIdle /\ OutIdle /\ HostIdle /\ MultiIdle /\ RunIdle /\ JsIdle
    /\ CallIdle /\ PingIdle /\ ExpandIdle /\ LiveIdle

NextDial ==
    \/ D_Begin
    \/ \E i \in DialTasks : D_Acquire(i)
    \/ \E i \in DialTasks : D_Connect(i)
    \/ \E i \in DialTasks : D_Expire(i)
    \/ \E i \in DialTasks : D_Release(i)
    \/ D_Tick
    \/ D_Return

SpecDial == InitDial /\ [][NextDial]_vars

====
